---------------------------- MODULE Spec2Model ----------------------------
(***************************************************************************)
(* A model of pysteon's PowerLine Modem core: the frame parser of          *)
(* pysteon/messaging.py and the request/response multiplexer of            *)
(* pysteon/plm.py (reader thread, event-loop dispatch, scoped reads,       *)
(* write_read and get_all_link_records under the write lock).              *)
(*                                                                         *)
(* Bytes are naturals 0..255, byte strings are sequences of bytes.         *)
(***************************************************************************)
EXTENDS Naturals, Integers, Sequences, FiniteSets, TLC

\* ------------------------------------------------------------------ bounds

\* Longest input buffer the parser specification starts from.
MaxLen == 5

\* Link records the modem's database holds.
MaxRecords == 2

\* Events of the environment in one run: spontaneous frames of the modem,
\* writes to the serial port that fail, and cancellations of tasks.
MaxEvents == 2

\* ------------------------------------------------------- messaging.py: data

MESSAGE_START_BYTE == 2

\* class CommandCode(IntEnum): 0x50..0x58 (IM to host), 0x60..0x73 (host to IM).
CommandCode == (80 .. 88) \cup (96 .. 115)

\* BODY_SIZES: the body size of the messages the IM sends, by command code.
\* Only twelve of the command codes have an entry.
BODY_SIZES ==
    [c \in (80 .. 88) \cup {96, 105, 106} |->
        CASE c = 80 -> 9
          [] c = 81 -> 23
          [] c = 82 -> 2
          [] c = 83 -> 8
          [] c = 84 -> 1
          [] c = 85 -> 0
          [] c = 86 -> 5
          [] c = 87 -> 8
          [] c = 88 -> 1
          [] c = 96 -> 7
          [] c = 105 -> 1
          [] c = 106 -> 1]

\* IncomingMessage(command_code, body).
IncomingMessage(command_code, body) ==
    [command_code |-> command_code, body |-> body]

\* Python's None, where a message is expected.
None == [command_code |-> -1, body |-> <<>>]

\* format_message: the wire bytes of a command code and a body.
format_message(command_code, body) ==
    <<MESSAGE_START_BYTE, command_code>> \o body

\* ------------------------------------------------- messaging.py: the parser

Max(a, b) == IF a >= b THEN a ELSE b

\* buffer[n:] of a bytearray.
Drop(buffer, n) ==
    IF n >= Len(buffer) THEN <<>> ELSE SubSeq(buffer, n + 1, Len(buffer))

\* The number of leading bytes of buffer that satisfy no message start, i.e.
\* the length of discarded_bytes after the for loop of
\* _discard_until_message_start.
RECURSIVE CountUntilStart(_, _)
CountUntilStart(buffer, index) ==
    IF index > Len(buffer) THEN index - 1
    ELSE IF buffer[index] # MESSAGE_START_BYTE
         THEN CountUntilStart(buffer, index + 1)
         ELSE index - 1

\* bytearray.lstrip(b'\x00').
RECURSIVE LStripNull(_)
LStripNull(bytes) ==
    IF bytes # <<>> /\ Head(bytes) = 0 THEN LStripNull(Tail(bytes)) ELSE bytes

\* _discard_until_message_start without the lstrip of the null bytes: every
\* discard is logged.
DiscardWarnsOnNull(buffer) ==
    LET n == CountUntilStart(buffer, 1)
    IN  [buffer |-> Drop(buffer, n), warned |-> n > 0]

\* _discard_until_message_start: the buffer left and whether a warning is
\* logged.
DiscardUntilMessageStart(buffer) ==
    LET n == CountUntilStart(buffer, 1)
        discarded_bytes == SubSeq(buffer, 1, n)
    IN  [buffer |-> Drop(buffer, n),
         warned |-> n > 0 /\ LStripNull(discarded_bytes) # <<>>]

\* _extract_body with a hint that forgets the two bytes before the body.
ExtractBodyShortHint(buffer, size) ==
    IF Len(buffer) < size + 2
    THEN [found |-> FALSE, body |-> <<>>,
          expected |-> size, buffer |-> buffer]
    ELSE [found |-> TRUE, body |-> SubSeq(buffer, 3, size + 2),
          expected |-> 0, buffer |-> Drop(buffer, size + 2)]

\* _extract_body: (body, expected) and the buffer left.
ExtractBody(buffer, size) ==
    IF Len(buffer) < size + 2
    THEN [found |-> FALSE, body |-> <<>>,
          expected |-> size + 2 - Len(buffer), buffer |-> buffer]
    ELSE [found |-> TRUE, body |-> SubSeq(buffer, 3, size + 2),
          expected |-> 0, buffer |-> Drop(buffer, size + 2)]

\* parse_message that discards the start byte only when the command code is
\* unknown.
ParseMessageDropsOne(buffer) ==
    LET d == DiscardUntilMessageStart(buffer)
        b == d.buffer
    IN  IF Len(b) < 2
        THEN [message |-> None, expected |-> 2 - Len(b), buffer |-> b,
              warned |-> d.warned, unknown |-> FALSE, error |-> "none"]
        ELSE IF b[2] \notin CommandCode
        THEN [message |-> None, expected |-> 2, buffer |-> Drop(b, 1),
              warned |-> d.warned, unknown |-> TRUE, error |-> "none"]
        ELSE IF b[2] \notin DOMAIN BODY_SIZES
        THEN [message |-> None, expected |-> 0, buffer |-> b,
              warned |-> d.warned, unknown |-> FALSE, error |-> "KeyError"]
        ELSE LET e == ExtractBody(b, BODY_SIZES[b[2]])
             IN  IF ~e.found
                 THEN [message |-> None, expected |-> e.expected,
                       buffer |-> e.buffer, warned |-> d.warned,
                       unknown |-> FALSE, error |-> "none"]
                 ELSE [message |-> IncomingMessage(b[2], e.body),
                       expected |-> Max(2 - Len(e.buffer), 1),
                       buffer |-> e.buffer, warned |-> d.warned,
                       unknown |-> FALSE, error |-> "none"]

\* parse_message: (message, expected), the buffer left, the warnings logged
\* and the exception that escapes ("none" when the call returns).
\* BODY_SIZES[command_code] raises KeyError for a member of CommandCode that
\* has no entry in BODY_SIZES.
ParseMessage(buffer) ==
    LET d == DiscardUntilMessageStart(buffer)
        b == d.buffer
    IN  IF Len(b) < 2
        THEN [message |-> None, expected |-> 2 - Len(b), buffer |-> b,
              warned |-> d.warned, unknown |-> FALSE, error |-> "none"]
        ELSE IF b[2] \notin CommandCode
        THEN [message |-> None, expected |-> 2, buffer |-> Drop(b, 2),
              warned |-> d.warned, unknown |-> TRUE, error |-> "none"]
        ELSE IF b[2] \notin DOMAIN BODY_SIZES
        THEN [message |-> None, expected |-> 0, buffer |-> b,
              warned |-> d.warned, unknown |-> FALSE, error |-> "KeyError"]
        ELSE LET e == ExtractBody(b, BODY_SIZES[b[2]])
             IN  IF ~e.found
                 THEN [message |-> None, expected |-> e.expected,
                       buffer |-> e.buffer, warned |-> d.warned,
                       unknown |-> FALSE, error |-> "none"]
                 ELSE [message |-> IncomingMessage(b[2], e.body),
                       expected |-> Max(2 - Len(e.buffer), 1),
                       buffer |-> e.buffer, warned |-> d.warned,
                       unknown |-> FALSE, error |-> "none"]

\* parse_messages with "if message" for "while message": it stops after the
\* first message.
ParseMessagesOnce(buffer, messages) ==
    LET r == ParseMessage(buffer)
    IN  IF r.error # "none"
        THEN [messages |-> <<>>, expected |-> 0, buffer |-> r.buffer,
              error |-> r.error]
        ELSE IF r.message = None
        THEN [messages |-> messages, expected |-> r.expected,
              buffer |-> r.buffer, error |-> "none"]
        ELSE LET q == ParseMessage(r.buffer)
             IN  [messages |-> Append(messages, r.message),
                  expected |-> q.expected, buffer |-> r.buffer,
                  error |-> q.error]

\* parse_messages: parse_message until it returns no message; an exception of
\* parse_message escapes parse_messages, and the messages collected are lost.
RECURSIVE ParseMessagesLoop(_, _)
ParseMessagesLoop(buffer, messages) ==
    LET r == ParseMessage(buffer)
    IN  IF r.error # "none"
        THEN [messages |-> <<>>, expected |-> 0, buffer |-> r.buffer,
              error |-> r.error]
        ELSE IF r.message = None
        THEN [messages |-> messages, expected |-> r.expected,
              buffer |-> r.buffer, error |-> "none"]
        ELSE ParseMessagesLoop(r.buffer, Append(messages, r.message))

ParseMessages(buffer) == ParseMessagesLoop(buffer, <<>>)


\* ------------------------------------------------------------------- state

VARIABLES
    buffer,         \* the bytearray handed to the parser (_run's buffer)
    result,         \* what the last direct parser call was given and returned
    expected,       \* _run: the size of the next serial read
    reader,         \* the reader thread: "running", or "crashed" once an
                    \* exception has escaped _run
    serialIn,       \* bytes the modem has sent and _run has not read yet
    serialOut,      \* frames written to the serial port, not yet answered
    loopq,          \* on_message.emit calls posted with call_soon_threadsafe
    connected,      \* the tasks whose read_one is connected to on_message
    queue,          \* queue[t]: the asyncio.Queue of t's read() scope
    insteon_queue,  \* insteon_queue[t]: the queue of read_insteon_messages
    rq,             \* rq[t]: t's read_queue task
    lockOwner,      \* the holder of __write_lock, or NoTask
    lockWaiters,    \* the tasks waiting in __write_lock.acquire(), in order
    pc,             \* pc[t]: where task t is suspended
    op,             \* op[t]: the operation task t runs
    ret,            \* ret[t]: what write_read returned to t
    exc,            \* exc[t]: the exception that ended t
    links,          \* links[t]: get_all_link_records' locals
    modem,          \* the modem: the link records sent, the frames it
                    \* sends on its own
    events,         \* the events of the environment so far
    dispatched,     \* history: every message on_message has emitted
    sub,            \* history: sub[t], what t's current subscription was fed
    on_all_linking_completed,
                    \* the handlers of wait_all_linking_completed connected
                    \* to the signal, in order, each named by its future
    future,         \* future[f]: a future of wait_all_linking_completed
    loop_error,     \* an exception has escaped a callback of the event loop
    must_stop,      \* the Event __must_stop is set
    serial,         \* the serial handle: "open" or "closed"
    closer,         \* where the caller of close() is
    monitor_interrupt,
                    \* the asyncio.Event __monitor_interrupt is set
    monitor,        \* monitor(): where the call is, and whether
                    \* _monitor_message is connected to on_message
    controller      \* the Controller of controller.py, its serial line and
                    \* the calls of communicate

parserVars == <<buffer, result>>

muxVars ==
    <<expected, reader, serialIn, serialOut, loopq, connected, queue,
      insteon_queue, rq, lockOwner, lockWaiters, pc, op, ret, exc, links,
      modem, events, dispatched, sub, on_all_linking_completed, future,
      loop_error, must_stop, serial, closer, monitor_interrupt, monitor,
      controller>>

closeVars == <<must_stop, serial, closer>>

waitVars == <<on_all_linking_completed, future, loop_error>>

monitorVars == <<monitor_interrupt, monitor>>

\* The state of the PowerLineModem object, as opposed to the Controller's.
plmVars ==
    <<buffer, result, expected, reader, serialIn, serialOut, loopq,
      connected, queue, insteon_queue, rq, lockOwner, lockWaiters, pc, op,
      ret, exc, links, modem, events, dispatched, sub, waitVars, closeVars,
      monitorVars>>

vars == <<buffer, result, muxVars>>

\* The bytes the parser specification draws its buffers from: 0x00 (the
\* modem's idle byte, also no command code), 0x01 (junk, also no command
\* code), 0x02 (the message start), 0x52, 0x54, 0x55 (command codes with body
\* sizes 2, 1, 0) and 0x62 (a command code BODY_SIZES has no entry for).
ByteSample == {0, 1, 2, 82, 84, 85, 98}

BuffersUpTo(n) == UNION {[1 .. k -> ByteSample] : k \in 0 .. n}

NoResult ==
    [call |-> "none", input |-> <<>>, message |-> None, messages |-> <<>>,
     expected |-> 0, warned |-> FALSE, unknown |-> FALSE, error |-> "none"]

\* The tasks of the event loop: two that run commands, one that reads.
CommandTasks == {"c1", "c2"}
ReaderTasks == {"r1"}
Tasks == CommandTasks \cup ReaderTasks
NoTask == "nobody"

\* command_codes=None of read(): every message is accepted.
NoCodes == {-1}

NoOp == [name |-> "none", command_code |-> 0, body |-> <<>>,
         command_codes |-> {}]

NoSub == [from |-> 0, to |-> 0, live |-> FALSE, taken |-> <<>>, itaken |-> <<>>]

\* The futures wait_all_linking_completed returns, and one not created yet.
Futures == {"f1", "f2"}

NoFuture == [state |-> "none", result |-> <<>>]

NoLinks == [controllers |-> <<>>, responders |-> <<>>,
            read_command_code |-> 0]

\* monitor() has not been called: _monitor_message is not connected.
NoMonitor == [pc |-> "idle", connected |-> FALSE]

\* The tasks that call Controller.communicate.
ControllerTasks == {"a", "b"}

\* Controller.__init__: the serial line is flushed, serial_lock is free and
\* _read_buffer is empty. out and in are the bytes of the serial line on
\* their way to the modem and from it, trace the reads and writes of the
\* line so far, and call[t] the call of communicate by task t: its command,
\* its position (step), what suspends it (at), the bytes it has read and the
\* exception that ended it.
NoController ==
    [serial_lock |-> [owner |-> NoTask, waiters |-> <<>>],
     _read_buffer |-> <<>>,
     out |-> <<>>,
     in |-> <<>>,
     trace |-> <<>>,
     call |-> [t \in ControllerTasks |->
                [command |-> 0, expected_size |-> 0, step |-> 0,
                 at |-> "idle", read |-> <<>>, exc |-> "none"]]]

\* The modem's answer to 0x60: identity 1A.2B.3C, category 0x03, subcategory
\* 0x2A, firmware 0x07.
InfoBody == <<26, 43, 60, 3, 42, 7>>

\* self.on_all_linking_completed before the constructor has assigned it:
\* the attribute does not exist.
Unassigned == <<"unassigned">>

\* PowerLineModem.__init__: the reader thread runs with an empty buffer and
\* expects 2 bytes, the lock is free and only the modem's own handlers are
\* connected. The modem sends the frames of frames on its own and answers
\* 0x60 with info. signal is on_all_linking_completed: without handlers of
\* futures once the constructor has returned, Unassigned before.
MuxInitAt(frames, info, signal) ==
    /\ expected = 2
    /\ reader = "running"
    /\ serialIn = <<>>
    /\ serialOut = <<>>
    /\ loopq = <<>>
    /\ connected = {}
    /\ queue = [t \in Tasks |-> <<>>]
    /\ insteon_queue = [t \in Tasks |-> <<>>]
    /\ rq = [t \in Tasks |-> "none"]
    /\ lockOwner = NoTask
    /\ lockWaiters = <<>>
    /\ pc = [t \in Tasks |-> "idle"]
    /\ op = [t \in Tasks |-> NoOp]
    /\ ret = [t \in Tasks |-> None]
    /\ exc = [t \in Tasks |-> "none"]
    /\ links = [t \in Tasks |-> NoLinks]
    /\ modem = [cursor |-> 0, frames |-> frames, info |-> info,
                linking |-> FALSE]
    /\ events = 0
    /\ dispatched = <<>>
    /\ sub = [t \in Tasks |-> NoSub]
    /\ on_all_linking_completed = signal
    /\ future = [f \in Futures |-> NoFuture]
    /\ loop_error = FALSE
    /\ must_stop = FALSE
    /\ serial = "open"
    /\ closer = "idle"
    /\ monitor_interrupt = FALSE
    /\ monitor = NoMonitor
    /\ controller = NoController

\* PowerLineModem.__init__, once the constructor has returned.
MuxInitWith(frames, info) == MuxInitAt(frames, info, <<>>)

MuxInit(frames) == MuxInitWith(frames, InfoBody)

\* ------------------------------------------- the parser, called on a buffer

ParserInit ==
    /\ buffer \in BuffersUpTo(MaxLen)
    /\ result = NoResult
    /\ MuxInit({})

\* One call of parse_message(buffer).
CallParseMessage ==
    /\ result.error = "none"
    /\ LET r == ParseMessage(buffer)
       IN  /\ buffer' = r.buffer
           /\ result' = [call |-> "parse_message", input |-> buffer,
                         message |-> r.message, messages |-> <<>>,
                         expected |-> r.expected, warned |-> r.warned,
                         unknown |-> r.unknown, error |-> r.error]
    /\ UNCHANGED muxVars

\* One call of parse_messages(buffer).
CallParseMessages ==
    /\ result.error = "none"
    /\ LET r == ParseMessages(buffer)
       IN  /\ buffer' = r.buffer
           /\ result' = [call |-> "parse_messages", input |-> buffer,
                         message |-> None, messages |-> r.messages,
                         expected |-> r.expected, warned |-> FALSE,
                         unknown |-> FALSE, error |-> r.error]
    /\ UNCHANGED muxVars

ParserNext == CallParseMessage \/ CallParseMessages

ParserSpec == ParserInit /\ [][ParserNext]_vars

\* --------------------------------------------------------------- the modem

\* check_ack_or_nak: the acknowledgment bytes.
ACK == 6
NAK == 21

\* The body of a 0x62 command: target 01.02.03, flags 0x0F, command 0x11 0x7F.
StandardBody == <<1, 2, 3, 15, 17, 127>>

\* The body of the i-th link record (0x57) of the modem's database.
Record(i) ==
    IF i % 2 = 1
    THEN <<226, 1, 170, 187, 204, 1, 2, 3>>
    ELSE <<162, 2, 221, 238, 255, 4, 5, 6>>

\* Frames the modem sends on its own: a button event report (0x54) and a
\* standard message received (0x50).
ButtonEvent == format_message(84, <<2>>)
StandardMessage == format_message(80, <<17, 34, 51, 68, 85, 102, 2, 19, 0>>)

\* The modem answers the oldest command written to it: it echoes the command
\* and ends with ACK or NAK; an acknowledged 0x69 or 0x6A is followed by the
\* next link record, and is only acknowledged while a record is left; an
\* acknowledged 0x64 starts an all-linking session and an acknowledged 0x65
\* ends it.
ModemAnswer ==
    /\ serialOut # <<>>
    /\ LET bytes == Head(serialOut).bytes
           code == bytes[2]
           cursor == IF code = 105 THEN 0 ELSE modem.cursor
       IN  \E ack \in {ACK, NAK} :
             /\ (code \in {105, 106} /\ ack = ACK) => cursor < MaxRecords
             /\ serialIn' = serialIn \o
                    (CASE code = 96 -> format_message(96, modem.info)
                       [] OTHER -> bytes) \o <<ack>> \o
                    (IF code \in {105, 106} /\ ack = ACK
                     THEN format_message(87, Record(cursor + 1)) ELSE <<>>)
             /\ modem' = [modem EXCEPT
                    !.cursor =
                        IF code \in {105, 106} /\ ack = ACK THEN cursor + 1
                        ELSE IF code = 105 THEN 0 ELSE @,
                    !.linking =
                        IF code = 100 /\ ack = ACK THEN TRUE
                        ELSE IF code = 101 /\ ack = ACK THEN FALSE ELSE @]
    /\ serialOut' = Tail(serialOut)
    /\ UNCHANGED <<buffer, result, expected, reader, loopq, connected, queue,
                   insteon_queue, rq, lockOwner, lockWaiters, pc, op, ret,
                   exc, links, events, dispatched, sub>>
    /\ UNCHANGED <<waitVars, closeVars, monitorVars, controller>>

\* The modem sends a spontaneous frame.
ModemSpontaneous ==
    /\ events < MaxEvents
    /\ events' = events + 1
    /\ \E f \in modem.frames : serialIn' = serialIn \o f
    /\ UNCHANGED <<buffer, result, expected, reader, serialOut, loopq,
                   connected, queue, insteon_queue, rq, lockOwner,
                   lockWaiters, pc, op, ret, exc, links, modem, dispatched,
                   sub>>
    /\ UNCHANGED <<waitVars, closeVars, monitorVars, controller>>

\* ------------------------------------------- plm.py: reader and dispatcher

Min(a, b) == IF a <= b THEN a ELSE b

\* _run, one turn of the loop with a read that returns data:
\* serial.read(expected) returns up to expected bytes, the buffer is extended
\* and parsed, and each message is posted to the loop. The try covers the
\* read only: an exception of parse_messages ends the thread.
ReaderRun ==
    /\ reader = "running"
    /\ serialIn # <<>>
    /\ \E n \in {Min(expected, Len(serialIn))} :
       \E r \in {ParseMessages(buffer \o SubSeq(serialIn, 1, n))} :
           /\ serialIn' = Drop(serialIn, n)
           /\ buffer' = r.buffer
           /\ IF r.error # "none"
              THEN /\ reader' = "crashed"
                   /\ UNCHANGED <<expected, loopq>>
              ELSE /\ expected' = r.expected
                   /\ loopq' = loopq \o r.messages
                   /\ UNCHANGED reader
    /\ UNCHANGED <<result, serialOut, connected, queue, insteon_queue, rq,
                   lockOwner, lockWaiters, pc, op, ret, exc, links, modem,
                   events, dispatched, sub>>
    /\ UNCHANGED <<waitVars, closeVars, monitorVars, controller>>

\* The command codes t's read_one accepts: the command_codes its read() scope
\* was entered with.
CommandCodes(t) ==
    CASE op[t].name = "get_all_link_records" ->
            {links[t].read_command_code, 87}
      [] op[t].name = "read_insteon_messages" -> {80, 81}
      [] OTHER -> op[t].command_codes

\* read_one without the test of command_codes.
ReadOneUnfiltered(q, command_codes, message) == Append(q, message)

\* read_one: the queue after on_message has called it with a message (a
\* message of the parser is no Exception).
ReadOne(q, command_codes, message) ==
    IF command_codes = NoCodes \/ message.command_code \in command_codes
    THEN Append(q, message)
    ELSE q

\* The values of DeviceCategory.
DeviceCategory == (0 .. 22) \cup {255}

\* DeviceCategory.subcategory_class: the class and its values, for the
\* categories that have one.
subcategory_class ==
    [devcat \in 0 .. 7 |->
        CASE devcat = 0 ->
                [name |-> "GeneralizedControllersSubcategory",
                 values |-> {4, 5, 6, 9, 10, 11, 12}]
          [] devcat = 1 ->
                [name |-> "DimmableLightingControlSubcategory",
                 values |-> {0, 1, 2, 3, 4, 6, 7, 9, 10, 13, 19, 23}]
          [] devcat = 2 ->
                [name |-> "SwitchedLightingControlSubcategory",
                 values |-> {9, 10, 11, 12, 13, 14, 16, 19}]
          [] devcat = 3 ->
                [name |-> "NetworkBridgesSubcategory",
                 values |-> {1, 2, 3, 4, 5, 17, 21}]
          [] devcat = 4 ->
                [name |-> "IrrigationControlSubcategory", values |-> {0}]
          [] devcat = 5 ->
                [name |-> "ClimateControlSubcategory",
                 values |-> {0, 1, 2, 3, 4}]
          [] devcat = 6 ->
                [name |-> "PoolAndSpaControlSubcategory", values |-> {0}]
          [] devcat = 7 ->
                [name |-> "SensorsAndActuatorsSubcategory", values |-> {0}]]

\* parse_device_categories that never looks the subcategory up.
parse_device_categories_generic(value) ==
    [category |->
        [class |-> IF value[1] \in DeviceCategory THEN "DeviceCategory"
                   ELSE "GenericDeviceCategory",
         value |-> value[1]],
     subcategory |-> [class |-> "GenericSubcategory", value |-> value[2]]]

\* parse_device_categories: (devcat, subcat), each with its class.
parse_device_categories(value) ==
    [category |->
        [class |-> IF value[1] \in DeviceCategory THEN "DeviceCategory"
                   ELSE "GenericDeviceCategory",
         value |-> value[1]],
     subcategory |->
        [class |-> IF /\ value[1] \in DOMAIN subcategory_class
                      /\ value[2] \in subcategory_class[value[1]].values
                   THEN subcategory_class[value[1]].name
                   ELSE "GenericSubcategory",
         value |-> value[2]]]

\* The values of AllLinkMode, and the mode of a byte that is none of them.
AllLinkMode == {0, 1, 3, 254, 255}

NoMode == [class |-> "NoneType", value |-> 0]

\* _handle_message on an all-linking completed message (0x53): the keyword
\* arguments on_all_linking_completed is emitted with.
AllLinkingCompletedEvent(message) ==
    LET categories == parse_device_categories(SubSeq(message.body, 6, 7))
    IN  [identity |-> SubSeq(message.body, 3, 5),
         group |-> message.body[2],
         mode |-> IF message.body[1] \in AllLinkMode
                  THEN [class |-> "AllLinkMode", value |-> message.body[1]]
                  ELSE NoMode,
         category |-> categories.category,
         subcategory |-> categories.subcategory,
         firmware_version |-> message.body[8]]

\* on_all_linking_completed.emit(...): the handlers are called in the order
\* they were connected. A handler calls future.set_result, which raises
\* InvalidStateError unless the future is pending; the exception ends the
\* emit. The result: the futures, whether an exception was raised, and the
\* futures resolved (their done callbacks are scheduled).
RECURSIVE EmitAllLinkingCompleted(_, _, _)
EmitAllLinkingCompleted(receivers, event, futures) ==
    IF receivers = <<>>
    THEN [future |-> futures, raised |-> FALSE, resolved |-> <<>>]
    ELSE LET f == Head(receivers)
         IN  IF futures[f].state # "pending"
             THEN [future |-> futures, raised |-> TRUE, resolved |-> <<>>]
             ELSE LET rest == EmitAllLinkingCompleted(
                                Tail(receivers), event,
                                [futures EXCEPT ![f] =
                                    [state |-> "done",
                                     result |-> <<event>>]])
                  IN  [rest EXCEPT !.resolved = <<f>> \o @]

\* _handle_message, the first receiver of on_message after the logger. On
\* an all-linking completed message it reads self.on_all_linking_completed,
\* which raises AttributeError while the attribute is not assigned.
HandleMessage(message) ==
    IF message.command_code = 83
    THEN IF on_all_linking_completed = Unassigned
         THEN [future |-> future, raised |-> TRUE, resolved |-> <<>>]
         ELSE EmitAllLinkingCompleted(on_all_linking_completed,
                                      AllLinkingCompletedEvent(message),
                                      future)
    ELSE [future |-> future, raised |-> FALSE, resolved |-> <<>>]

\* The call of a future's done callback, scheduled on the loop with
\* call_soon; the calls of on_message.emit on the loop are the messages.
OnDoneCall(f) == [callback |-> "on_done", future |-> f]

IsEmitCall(call) == "command_code" \in DOMAIN call

\* on_message.emit(message), run by the event loop: _handle_message is
\* called, then every connected read_one. An exception of _handle_message
\* ends the emit and goes to the loop's exception handler. (For 0x50 and
\* 0x51 _handle_message emits on_insteon_message, which no task of this model
\* is connected to.)
Emit ==
    /\ loopq # <<>>
    /\ IsEmitCall(Head(loopq))
    /\ LET handled == HandleMessage(Head(loopq))
       IN  /\ loopq' = Tail(loopq) \o
                    [i \in 1 .. Len(handled.resolved) |->
                        OnDoneCall(handled.resolved[i])]
           /\ future' = handled.future
           /\ loop_error' = (loop_error \/ handled.raised)
           /\ queue' = [t \in Tasks |->
                    IF t \in connected /\ ~handled.raised
                    THEN ReadOne(queue[t], CommandCodes(t), Head(loopq))
                    ELSE queue[t]]
    /\ dispatched' = Append(dispatched, Head(loopq))
    /\ UNCHANGED <<buffer, result, expected, reader, serialIn, serialOut,
                   connected, insteon_queue, rq, lockOwner, lockWaiters, pc,
                   op, ret, exc, links, modem, events, sub,
                   on_all_linking_completed>>
    /\ UNCHANGED <<closeVars, monitorVars, controller>>

\* wait_all_linking_completed: a new future, its handler connected.
WaitAllLinkingCompleted(f) ==
    /\ future[f].state = "none"
    /\ future' = [future EXCEPT ![f].state = "pending"]
    /\ on_all_linking_completed' = Append(on_all_linking_completed, f)
    /\ UNCHANGED <<buffer, result, expected, reader, serialIn, serialOut,
                   loopq, connected, queue, insteon_queue, rq, lockOwner,
                   lockWaiters, pc, op, ret, exc, links, modem, events,
                   dispatched, sub, loop_error>>
    /\ UNCHANGED <<closeVars, monitorVars, controller>>

\* future.cancel() on a pending future: the future is cancelled and its done
\* callback is scheduled with call_soon.
CancelFuture(f) ==
    /\ future[f].state = "pending"
    /\ future' = [future EXCEPT ![f].state = "cancelled"]
    /\ loopq' = Append(loopq, OnDoneCall(f))
    /\ UNCHANGED <<buffer, result, expected, reader, serialIn, serialOut,
                   connected, queue, insteon_queue, rq, lockOwner,
                   lockWaiters, pc, op, ret, exc, links, modem, events,
                   dispatched, sub, on_all_linking_completed, loop_error>>
    /\ UNCHANGED <<closeVars, monitorVars, controller>>

\* on_done, run by the event loop: the handler is disconnected.
OnDone(f) ==
    /\ loopq # <<>>
    /\ Head(loopq) = OnDoneCall(f)
    /\ loopq' = Tail(loopq)
    /\ on_all_linking_completed' =
            SelectSeq(on_all_linking_completed, LAMBDA g : g # f)
    /\ UNCHANGED <<buffer, result, expected, reader, serialIn, serialOut,
                   connected, queue, insteon_queue, rq, lockOwner,
                   lockWaiters, pc, op, ret, exc, links, modem, events,
                   dispatched, sub, future, loop_error>>
    /\ UNCHANGED <<closeVars, monitorVars, controller>>

\* ------------------------------------------------- plm.py: the write lock

\* write_read without "async with self.__write_lock": nobody waits.
LockFreeAlways == TRUE

\* asyncio.Lock.acquire() returns at once when the lock is free and no task
\* waits for it; otherwise the caller waits its turn.
LockFree == lockOwner = NoTask /\ lockWaiters = <<>>

\* An exit that keeps the lock.
ReleasedOwnerKept == lockOwner

\* asyncio.Lock.release(): the lock goes to the first waiter, if any.
ReleasedOwner == IF lockWaiters = <<>> THEN NoTask ELSE Head(lockWaiters)
ReleasedWaiters == IF lockWaiters = <<>> THEN <<>> ELSE Tail(lockWaiters)

\* ------------------------------------------------ plm.py: scoped read()

\* on_message.connect(read_one).
Connect(t) == connected \cup {t}

\* read() without its finally clause: read_one stays connected.
DisconnectNothing(t) == connected

\* on_message.disconnect(read_one), in the finally clause of read().
Disconnect(t) == connected \ {t}

\* read(): a new queue is made and read_one is connected to on_message.
Subscribed ==
    [from |-> Len(dispatched), to |-> 0, live |-> TRUE, taken |-> <<>>,
     itaken |-> <<>>]

\* read(), the finally clause: read_one is disconnected.
Unsubscribed(t) ==
    [sub[t] EXCEPT !.live = FALSE, !.to = Len(dispatched)]

\* _flush that leaves the input buffer of the port as it is.
FlushInputKept == serialIn

\* _flush: the bytes received and not read yet are discarded. (flushOutput
\* discards bytes written and not sent yet; a frame in serialOut has been
\* sent.)
FlushInput == <<>>

\* self.write(...): the frame is written to the serial port, or the write
\* raises.
WriteOutcomes == IF events < MaxEvents THEN {TRUE, FALSE} ELSE {TRUE}

\* ------------------------------------------------------ plm.py: write_read

\* What callers of write_read ask for: get_info (0x60, accepting 0x60) and
\* send_standard_or_extended_message (0x62, accepting 0x62).
WriteReadOps ==
    { [name |-> "write_read", command_code |-> 96, body |-> <<>>,
       command_codes |-> {96}],
      [name |-> "write_read", command_code |-> 98, body |-> StandardBody,
       command_codes |-> {98}] }

\* isinstance(response, MessageFailure): the responses are the messages
\* parse_messages returns, which are IncomingMessage objects.
IsMessageFailure(response) == FALSE

\* write_read with the lock held by t, from self.write to the await of
\* queue.get(); when fresh, from the entry of the with block. A write that
\* raises leaves the with block, flushes and releases the lock.
WriteReadSend(t, o, fresh) ==
    \E ok \in WriteOutcomes :
        IF ok
        THEN /\ serialOut' = Append(serialOut,
                    [by |-> t,
                     bytes |-> format_message(o.command_code, o.body)])
             /\ connected' = Connect(t)
             /\ queue' = IF fresh THEN [queue EXCEPT ![t] = <<>>] ELSE queue
             /\ sub' = IF fresh THEN [sub EXCEPT ![t] = Subscribed] ELSE sub
             /\ pc' = [pc EXCEPT ![t] = "wr_get"]
             /\ lockOwner' = t
             /\ UNCHANGED <<lockWaiters, serialIn, events, exc>>
        ELSE /\ events' = events + 1
             /\ connected' = Disconnect(t)
             /\ queue' = IF fresh THEN [queue EXCEPT ![t] = <<>>] ELSE queue
             /\ sub' = [sub EXCEPT ![t] =
                    [(IF fresh THEN Subscribed ELSE sub[t])
                        EXCEPT !.live = FALSE, !.to = Len(dispatched)]]
             /\ serialIn' = FlushInput
             /\ pc' = [pc EXCEPT ![t] = "failed"]
             /\ exc' = [exc EXCEPT ![t] = "SerialException"]
             /\ lockOwner' = ReleasedOwner
             /\ lockWaiters' = ReleasedWaiters
             /\ UNCHANGED serialOut

\* A task calls write_read: it takes the lock and sends, or waits for the
\* lock.
WriteReadCall(t) ==
    /\ pc[t] = "idle"
    /\ \E o \in WriteReadOps :
        /\ op' = [op EXCEPT ![t] = o]
        /\ IF LockFree
           THEN WriteReadSend(t, o, TRUE)
           ELSE /\ lockWaiters' = Append(lockWaiters, t)
                /\ pc' = [pc EXCEPT ![t] = "wr_lock"]
                /\ UNCHANGED <<lockOwner, serialIn, serialOut, connected,
                               queue, sub, events, exc>>
    /\ UNCHANGED <<buffer, result, expected, reader, loopq, insteon_queue,
                   rq, ret, links, modem, dispatched>>
    /\ UNCHANGED <<waitVars, closeVars, monitorVars, controller>>

\* write_read resumes with the lock, or after the retry delay, and sends.
WriteReadResume(t) ==
    /\ pc[t] \in {"wr_lock", "wr_sleep"}
    /\ pc[t] = "wr_lock" => lockOwner = t
    /\ WriteReadSend(t, op[t], pc[t] = "wr_lock")
    /\ UNCHANGED <<buffer, result, expected, reader, loopq, insteon_queue,
                   rq, op, ret, links, modem, dispatched>>
    /\ UNCHANGED <<waitVars, closeVars, monitorVars, controller>>

\* write_read gets a response from its queue: a MessageFailure makes it
\* sleep and retry, any other response ends the loop, the with block and the
\* lock, and is returned.
WriteReadResponse(t) ==
    /\ pc[t] = "wr_get"
    /\ queue[t] # <<>>
    /\ queue' = [queue EXCEPT ![t] = Tail(@)]
    /\ IF IsMessageFailure(Head(queue[t]))
       THEN /\ pc' = [pc EXCEPT ![t] = "wr_sleep"]
            /\ sub' = [sub EXCEPT ![t].taken = Append(@, Head(queue[t]))]
            /\ UNCHANGED <<ret, connected, lockOwner, lockWaiters>>
       ELSE /\ pc' = [pc EXCEPT ![t] = "done"]
            /\ ret' = [ret EXCEPT ![t] = Head(queue[t])]
            /\ connected' = Disconnect(t)
            /\ sub' = [sub EXCEPT ![t] =
                   [Unsubscribed(t) EXCEPT !.taken = Append(@, Head(queue[t]))]]
            /\ lockOwner' = ReleasedOwner
            /\ lockWaiters' = ReleasedWaiters
    /\ UNCHANGED <<buffer, result, expected, reader, serialIn, serialOut,
                   loopq, insteon_queue, rq, op, exc, links, modem, events,
                   dispatched>>
    /\ UNCHANGED <<waitVars, closeVars, monitorVars, controller>>

\* ------------------------------------------- plm.py: get_all_link_records

\* parse_all_link_record_response with AllLinkRole.controller = True.
parse_all_link_record_response_swapped(value) ==
    [identity |-> SubSeq(value, 3, 5),
     group |-> value[2],
     role |-> IF (value[1] \div 64) % 2 = 1 THEN "controller"
              ELSE "responder",
     data |-> SubSeq(value, 6, 8)]

\* parse_all_link_record_response: AllLinkRole(bool(value[0] & 0x40)), where
\* AllLinkRole.responder = True and AllLinkRole.controller = False.
parse_all_link_record_response(value) ==
    [identity |-> SubSeq(value, 3, 5),
     group |-> value[2],
     role |-> IF (value[1] \div 64) % 2 = 1 THEN "responder"
              ELSE "controller",
     data |-> SubSeq(value, 6, 8)]

\* The order of two records of one role: by identity, group, then data.
RecordKey(record) == record.identity \o <<record.group>> \o record.data

RECURSIVE LexLess(_, _)
LexLess(a, b) ==
    IF a = <<>> THEN b # <<>>
    ELSE IF b = <<>> THEN FALSE
    ELSE IF Head(a) # Head(b) THEN Head(a) < Head(b)
    ELSE LexLess(Tail(a), Tail(b))

\* A sort that loses the records.
SortedDropsAll(records) == <<>>

\* sorted(records).
RECURSIVE Sorted(_)
Sorted(records) ==
    IF records = <<>> THEN <<>>
    ELSE LET rest == Sorted(Tail(records))
             r == Head(records)
             before == SelectSeq(rest, LAMBDA x :
                           LexLess(RecordKey(x), RecordKey(r)))
             after == SelectSeq(rest, LAMBDA x :
                           ~LexLess(RecordKey(x), RecordKey(r)))
         IN  before \o <<r>> \o after

\* get_all_link_records with the lock held by t, one turn of the while loop
\* up to the first await: a new read() scope for read_command_code and 0x57,
\* then the write. A write that raises leaves the scope and the lock.
LinkRecordsSend(t, read_command_code) ==
    \E ok \in WriteOutcomes :
        /\ queue' = [queue EXCEPT ![t] = <<>>]
        /\ IF ok
           THEN /\ serialOut' = Append(serialOut,
                       [by |-> t,
                        bytes |-> format_message(read_command_code, <<>>)])
                /\ connected' = Connect(t)
                /\ sub' = [sub EXCEPT ![t] = Subscribed]
                /\ pc' = [pc EXCEPT ![t] = "galr_ack"]
                /\ lockOwner' = t
                /\ UNCHANGED <<lockWaiters, events, exc>>
           ELSE /\ events' = events + 1
                /\ connected' = Disconnect(t)
                /\ sub' = [sub EXCEPT ![t] =
                       [Subscribed EXCEPT !.live = FALSE,
                                          !.to = Len(dispatched)]]
                /\ pc' = [pc EXCEPT ![t] = "failed"]
                /\ exc' = [exc EXCEPT ![t] = "SerialException"]
                /\ lockOwner' = ReleasedOwner
                /\ lockWaiters' = ReleasedWaiters
                /\ UNCHANGED serialOut

\* A task calls get_all_link_records: it takes the lock and sends 0x69, or
\* waits for the lock.
LinkRecordsCall(t) ==
    /\ pc[t] = "idle"
    /\ op' = [op EXCEPT ![t] = [name |-> "get_all_link_records",
                                command_code |-> 105, body |-> <<>>,
                                command_codes |-> {}]]
    /\ links' = [links EXCEPT ![t].read_command_code = 105]
    /\ IF LockFree
       THEN LinkRecordsSend(t, 105)
       ELSE /\ lockWaiters' = Append(lockWaiters, t)
            /\ pc' = [pc EXCEPT ![t] = "galr_lock"]
            /\ UNCHANGED <<lockOwner, serialOut, connected, queue, sub,
                           events, exc>>
    /\ UNCHANGED <<buffer, result, expected, reader, serialIn, loopq,
                   insteon_queue, rq, ret, modem, dispatched>>
    /\ UNCHANGED <<waitVars, closeVars, monitorVars, controller>>

\* get_all_link_records resumes with the lock and sends 0x69.
LinkRecordsResume(t) ==
    /\ pc[t] = "galr_lock"
    /\ lockOwner = t
    /\ LinkRecordsSend(t, 105)
    /\ UNCHANGED <<buffer, result, expected, reader, serialIn, loopq,
                   insteon_queue, rq, op, ret, links, modem, dispatched>>
    /\ UNCHANGED <<waitVars, closeVars, monitorVars, controller>>

\* get_all_link_records gets the first response and hands it to
\* check_ack_or_nak: ACK lets it await the record; NAK raises CommandFailure,
\* which leaves the scope and the lock and makes it return the sorted lists;
\* any other last byte raises RuntimeError, which leaves them and propagates.
LinkRecordsAck(t) ==
    /\ pc[t] = "galr_ack"
    /\ queue[t] # <<>>
    /\ queue' = [queue EXCEPT ![t] = Tail(@)]
    /\ LET response == Head(queue[t])
           value == response.body[Len(response.body)]
       IN  IF value = ACK
           THEN /\ pc' = [pc EXCEPT ![t] = "galr_rec"]
                /\ sub' = [sub EXCEPT ![t].taken = Append(@, response)]
                /\ UNCHANGED <<connected, lockOwner, lockWaiters, links, exc>>
           ELSE /\ connected' = Disconnect(t)
                /\ sub' = [sub EXCEPT ![t] =
                       [Unsubscribed(t) EXCEPT !.taken = Append(@, response)]]
                /\ lockOwner' = ReleasedOwner
                /\ lockWaiters' = ReleasedWaiters
                /\ IF value = NAK
                   THEN /\ pc' = [pc EXCEPT ![t] = "done"]
                        /\ links' = [links EXCEPT
                               ![t].controllers = Sorted(@),
                               ![t].responders = Sorted(@)]
                        /\ UNCHANGED exc
                   ELSE /\ pc' = [pc EXCEPT ![t] = "failed"]
                        /\ exc' = [exc EXCEPT ![t] = "RuntimeError"]
                        /\ UNCHANGED links
    /\ UNCHANGED <<buffer, result, expected, reader, serialIn, serialOut,
                   loopq, insteon_queue, rq, op, ret, modem, events,
                   dispatched>>
    /\ UNCHANGED <<waitVars, closeVars, monitorVars, controller>>

\* get_all_link_records gets the second response and parses it as a link
\* record: a body that is not 8 bytes long fails the assertion, which leaves
\* the scope and the lock and propagates; otherwise the record joins its list
\* and the loop goes on with 0x6A.
LinkRecordsRecord(t) ==
    /\ pc[t] = "galr_rec"
    /\ queue[t] # <<>>
    /\ LET response == Head(queue[t])
       IN  IF Len(response.body) # 8
           THEN /\ queue' = [queue EXCEPT ![t] = Tail(@)]
                /\ connected' = Disconnect(t)
                /\ sub' = [sub EXCEPT ![t] =
                       [Unsubscribed(t) EXCEPT !.taken = Append(@, response)]]
                /\ lockOwner' = ReleasedOwner
                /\ lockWaiters' = ReleasedWaiters
                /\ pc' = [pc EXCEPT ![t] = "failed"]
                /\ exc' = [exc EXCEPT ![t] = "AssertionError"]
                /\ UNCHANGED <<links, serialOut, events>>
           ELSE /\ LET record == parse_all_link_record_response(response.body)
                   IN  links' = [links EXCEPT
                           ![t].controllers =
                               IF record.role = "controller"
                               THEN Append(@, record) ELSE @,
                           ![t].responders =
                               IF record.role = "controller"
                               THEN @ ELSE Append(@, record),
                           ![t].read_command_code = 106]
                /\ LinkRecordsSend(t, 106)
    /\ UNCHANGED <<buffer, result, expected, reader, serialIn, loopq,
                   insteon_queue, rq, op, ret, modem, dispatched>>
    /\ UNCHANGED <<waitVars, closeVars, monitorVars, controller>>

\* ------------------------------------ plm.py: read and read_insteon_messages

\* InsteonMessage.from_message_body: the decoding of InsteonMessage's
\* from_message, applied to the body of a 0x50 or 0x51 message.
from_message_body(body) ==
    [sender |-> SubSeq(body, 1, 3),
     target |-> SubSeq(body, 4, 6),
     hops_left |-> (body[7] \div 4) % 4,
     max_hops |-> body[7] % 4,
     flags |-> {flag \in 4 .. 7 : (body[7] \div (2 ^ flag)) % 2 = 1},
     command_bytes |-> SubSeq(body, 8, 9),
     user_data |-> Drop(body, 9)]

\* The scopes the reading task enters: read() for every message, read() for
\* button event reports, and read_insteon_messages().
ReadOps ==
    { [name |-> "read", command_code |-> 0, body |-> <<>>,
       command_codes |-> NoCodes],
      [name |-> "read", command_code |-> 0, body |-> <<>>,
       command_codes |-> {84}],
      [name |-> "read_insteon_messages", command_code |-> 0, body |-> <<>>,
       command_codes |-> {80, 81}] }

\* A task enters a read() or read_insteon_messages() scope: a new queue,
\* read_one connected and, for read_insteon_messages, a new insteon_queue and
\* the read_queue task started.
ReadEnter(t) ==
    /\ pc[t] = "idle"
    /\ \E o \in ReadOps :
        /\ op' = [op EXCEPT ![t] = o]
        /\ rq' = [rq EXCEPT ![t] =
                IF o.name = "read_insteon_messages" THEN "running" ELSE @]
    /\ queue' = [queue EXCEPT ![t] = <<>>]
    /\ insteon_queue' = [insteon_queue EXCEPT ![t] = <<>>]
    /\ connected' = Connect(t)
    /\ sub' = [sub EXCEPT ![t] = Subscribed]
    /\ pc' = [pc EXCEPT ![t] = "rd_live"]
    /\ UNCHANGED <<buffer, result, expected, reader, serialIn, serialOut,
                   loopq, lockOwner, lockWaiters, ret, exc, links, modem,
                   events, dispatched>>
    /\ UNCHANGED <<waitVars, closeVars, monitorVars, controller>>

\* The body of a read() scope takes a message from the queue.
ReadGet(t) ==
    /\ pc[t] = "rd_live"
    /\ op[t].name = "read"
    /\ queue[t] # <<>>
    /\ queue' = [queue EXCEPT ![t] = Tail(@)]
    /\ sub' = [sub EXCEPT ![t].taken = Append(@, Head(queue[t]))]
    /\ UNCHANGED <<buffer, result, expected, reader, serialIn, serialOut,
                   loopq, connected, insteon_queue, rq, lockOwner,
                   lockWaiters, pc, op, ret, exc, links, modem, events,
                   dispatched>>
    /\ UNCHANGED <<waitVars, closeVars, monitorVars, controller>>

\* read_queue, one turn: a message is taken from the queue, decoded and put
\* on the insteon_queue.
ReadQueue(t) ==
    /\ rq[t] = "running"
    /\ queue[t] # <<>>
    /\ queue' = [queue EXCEPT ![t] = Tail(@)]
    /\ insteon_queue' = [insteon_queue EXCEPT ![t] =
            Append(@, from_message_body(Head(queue[t]).body))]
    /\ sub' = [sub EXCEPT ![t].taken = Append(@, Head(queue[t]))]
    /\ UNCHANGED <<buffer, result, expected, reader, serialIn, serialOut,
                   loopq, connected, rq, lockOwner, lockWaiters, pc, op, ret,
                   exc, links, modem, events, dispatched>>
    /\ UNCHANGED <<waitVars, closeVars, monitorVars, controller>>

\* The body of a read_insteon_messages() scope takes a decoded message.
InsteonGet(t) ==
    /\ pc[t] = "rd_live"
    /\ op[t].name = "read_insteon_messages"
    /\ insteon_queue[t] # <<>>
    /\ insteon_queue' = [insteon_queue EXCEPT ![t] = Tail(@)]
    /\ sub' = [sub EXCEPT ![t].itaken = Append(@, Head(insteon_queue[t]))]
    /\ UNCHANGED <<buffer, result, expected, reader, serialIn, serialOut,
                   loopq, connected, queue, rq, lockOwner, lockWaiters, pc,
                   op, ret, exc, links, modem, events, dispatched>>
    /\ UNCHANGED <<waitVars, closeVars, monitorVars, controller>>

\* The scope is left, by the end of its body, by an exception raised in the
\* body or by the cancellation of the task: read_queue_task.cancel(), then
\* on_message.disconnect(read_one).
ReadExit(t) ==
    /\ pc[t] = "rd_live"
    /\ \E how \in {"done", "failed", "cancelled"} :
        /\ how = "cancelled" => events < MaxEvents
        /\ events' = IF how = "cancelled" THEN events + 1 ELSE events
        /\ pc' = [pc EXCEPT ![t] = how]
        /\ exc' = [exc EXCEPT ![t] =
                CASE how = "done" -> "none"
                  [] how = "failed" -> "Exception"
                  [] how = "cancelled" -> "CancelledError"]
    /\ rq' = [rq EXCEPT ![t] = IF @ = "running" THEN "cancelled" ELSE @]
    /\ connected' = Disconnect(t)
    /\ sub' = [sub EXCEPT ![t] = Unsubscribed(t)]
    /\ UNCHANGED <<buffer, result, expected, reader, serialIn, serialOut,
                   loopq, queue, insteon_queue, lockOwner, lockWaiters, op,
                   ret, links, modem, dispatched>>
    /\ UNCHANGED <<waitVars, closeVars, monitorVars, controller>>

\* ---------------------------------------------------- plm.py: cancellation

\* A task waiting in __write_lock.acquire() is cancelled: it leaves the
\* waiters, and passes the lock on if it had just been given it.
CancelLockWait(t) ==
    /\ pc[t] \in {"wr_lock", "galr_lock"}
    /\ events < MaxEvents
    /\ events' = events + 1
    /\ IF lockOwner = t
       THEN /\ lockOwner' = ReleasedOwner
            /\ lockWaiters' = ReleasedWaiters
       ELSE /\ lockWaiters' = SelectSeq(lockWaiters, LAMBDA u : u # t)
            /\ UNCHANGED lockOwner
    /\ pc' = [pc EXCEPT ![t] = "cancelled"]
    /\ exc' = [exc EXCEPT ![t] = "CancelledError"]
    /\ UNCHANGED <<buffer, result, expected, reader, serialIn, serialOut,
                   loopq, connected, queue, insteon_queue, rq, op, ret,
                   links, modem, dispatched, sub>>
    /\ UNCHANGED <<waitVars, closeVars, monitorVars, controller>>

\* "except Exception" of write_read catches CancelledError where it derives
\* from Exception (Python before 3.8) and not where it derives from
\* BaseException (from 3.8 on): the flush happens or not.
CancelFlushes == {TRUE, FALSE}

\* A task is cancelled while it awaits queue.get() (or sleeps before a retry)
\* in write_read or get_all_link_records: CancelledError leaves the read()
\* scope, which disconnects read_one, write_read's except clause flushes if
\* it catches it, and the lock is released.
CancelCommand(t) ==
    /\ pc[t] \in {"wr_get", "wr_sleep", "galr_ack", "galr_rec"}
    /\ events < MaxEvents
    /\ events' = events + 1
    /\ connected' = Disconnect(t)
    /\ sub' = [sub EXCEPT ![t] = Unsubscribed(t)]
    /\ \E flush \in CancelFlushes :
        serialIn' = IF flush /\ op[t].name = "write_read"
                    THEN FlushInput ELSE serialIn
    /\ lockOwner' = ReleasedOwner
    /\ lockWaiters' = ReleasedWaiters
    /\ pc' = [pc EXCEPT ![t] = "cancelled"]
    /\ exc' = [exc EXCEPT ![t] = "CancelledError"]
    /\ UNCHANGED <<buffer, result, expected, reader, serialOut, loopq, queue,
                   insteon_queue, rq, op, ret, links, modem, dispatched>>
    /\ UNCHANGED <<waitVars, closeVars, monitorVars, controller>>

\* ------------------------------------------ plm.py: close() and the thread

\* _run, the test of its while loop: the thread goes on to read, or leaves
\* the loop and ends when __must_stop is set.
ReaderTest ==
    /\ reader = "running"
    /\ reader' = IF must_stop THEN "stopped" ELSE "reading"
    /\ UNCHANGED <<buffer, result, expected, serialIn, serialOut, loopq,
                   connected, queue, insteon_queue, rq, lockOwner,
                   lockWaiters, pc, op, ret, exc, links, modem, events,
                   dispatched, sub, waitVars, closeVars, monitorVars,
                   controller>>

\* _run, the rest of a turn: serial.read(expected) returns, with up to
\* expected bytes or, after the timeout of one second, with none; a read on
\* a closed handle raises, which _run logs. Data is parsed and the messages
\* are posted to the loop, as in ReaderRun.
ReaderRead ==
    /\ reader = "reading"
    /\ IF serial = "closed" \/ serialIn = <<>>
       THEN /\ reader' = "running"
            /\ UNCHANGED <<buffer, expected, serialIn, loopq>>
       ELSE \E n \in {Min(expected, Len(serialIn))} :
            \E r \in {ParseMessages(buffer \o SubSeq(serialIn, 1, n))} :
                /\ serialIn' = Drop(serialIn, n)
                /\ buffer' = r.buffer
                /\ IF r.error # "none"
                   THEN /\ reader' = "crashed"
                        /\ UNCHANGED <<expected, loopq>>
                   ELSE /\ reader' = "running"
                        /\ expected' = r.expected
                        /\ loopq' = loopq \o r.messages
    /\ UNCHANGED <<result, serialOut, connected, queue, insteon_queue, rq,
                   lockOwner, lockWaiters, pc, op, ret, exc, links, modem,
                   events, dispatched, sub, waitVars, closeVars, monitorVars,
                   controller>>

\* close(), up to the join: interrupt() and __must_stop.set().
CloseCall ==
    /\ closer = "idle"
    /\ monitor_interrupt' = TRUE
    /\ must_stop' = TRUE
    /\ closer' = "join"
    /\ UNCHANGED <<buffer, result, expected, reader, serialIn, serialOut,
                   loopq, connected, queue, insteon_queue, rq, lockOwner,
                   lockWaiters, pc, op, ret, exc, links, modem, events,
                   dispatched, sub, waitVars, serial, monitor, controller>>

\* A join that does not wait for the thread.
ThreadEndedAlways == TRUE

\* The thread has left _run, by the end of its loop or by an exception.
ThreadEnded == reader \in {"stopped", "crashed"}

\* close(): __thread.join() returns.
CloseJoin ==
    /\ closer = "join"
    /\ ThreadEnded
    /\ closer' = "joined"
    /\ UNCHANGED <<buffer, result, expected, reader, serialIn, serialOut,
                   loopq, connected, queue, insteon_queue, rq, lockOwner,
                   lockWaiters, pc, op, ret, exc, links, modem, events,
                   dispatched, sub, waitVars, must_stop, serial, monitorVars,
                   controller>>

\* close(): _serial.close(), and close() returns.
CloseSerial ==
    /\ closer = "joined"
    /\ serial' = "closed"
    /\ closer' = "done"
    /\ UNCHANGED <<buffer, result, expected, reader, serialIn, serialOut,
                   loopq, connected, queue, insteon_queue, rq, lockOwner,
                   lockWaiters, pc, op, ret, exc, links, modem, events,
                   dispatched, sub, waitVars, must_stop, monitorVars,
                   controller>>

\* ---------------------------------------- plm.py: monitor and interrupt

\* monitor(), its finally clause with the way the call ends: _monitor_message
\* stays connected.
MonitorExitKeepsHandler(how) == [pc |-> how, connected |-> TRUE]

\* monitor(), its finally clause with the way the call ends: _monitor_message
\* is disconnected from on_message.
MonitorExit(how) == [pc |-> how, connected |-> FALSE]

\* monitor() is called, up to its await: the event is cleared,
\* _monitor_message is connected and, the event being clear, wait() suspends
\* the call.
MonitorCall ==
    /\ monitor.pc # "waiting"
    /\ monitor_interrupt' = FALSE
    /\ monitor' = [pc |-> "waiting", connected |-> TRUE]
    /\ UNCHANGED <<buffer, result, expected, reader, serialIn, serialOut,
                   loopq, connected, queue, insteon_queue, rq, lockOwner,
                   lockWaiters, pc, op, ret, exc, links, modem, events,
                   dispatched, sub, waitVars, closeVars, controller>>

\* interrupt(): the event is set unless it is set already.
Interrupt ==
    /\ monitor_interrupt' = (IF ~monitor_interrupt THEN TRUE
                             ELSE monitor_interrupt)
    /\ UNCHANGED <<buffer, result, expected, reader, serialIn, serialOut,
                   loopq, connected, queue, insteon_queue, rq, lockOwner,
                   lockWaiters, pc, op, ret, exc, links, modem, events,
                   dispatched, sub, waitVars, closeVars, monitor, controller>>

\* monitor() resumes from wait() once the event is set, and returns.
MonitorResume ==
    /\ monitor.pc = "waiting"
    /\ monitor_interrupt
    /\ monitor' = MonitorExit("done")
    /\ UNCHANGED <<buffer, result, expected, reader, serialIn, serialOut,
                   loopq, connected, queue, insteon_queue, rq, lockOwner,
                   lockWaiters, pc, op, ret, exc, links, modem, events,
                   dispatched, sub, waitVars, closeVars, monitor_interrupt,
                   controller>>

\* The task of monitor() is cancelled while it waits: CancelledError is
\* raised at the await.
MonitorCancel ==
    /\ monitor.pc = "waiting"
    /\ monitor' = MonitorExit("cancelled")
    /\ UNCHANGED <<buffer, result, expected, reader, serialIn, serialOut,
                   loopq, connected, queue, insteon_queue, rq, lockOwner,
                   lockWaiters, pc, op, ret, exc, links, modem, events,
                   dispatched, sub, waitVars, closeVars, monitor_interrupt,
                   controller>>

\* ------------------------------------------- controller.py: communicate

PREFIX_BYTE == 2

\* The calls of communicate: get_im_info (0x60, 6 bytes expected) and the
\* first call of get_all_link_records (0x69, none expected).
ControllerCommands ==
    { [command |-> 96, expected_size |-> 6],
      [command |-> 105, expected_size |-> 0] }

\* What the modem sends for a command: its echo, the data of 0x60 and the
\* acknowledgment.
ControllerReply(command, ack) ==
    <<PREFIX_BYTE, command>> \o (IF command = 96 THEN InfoBody ELSE <<>>)
        \o <<ack>>

\* "async with self.serial_lock" does not suspend the caller: the lock is
\* free and nobody waits, or a release has handed it to the caller.
SerialLockFree(c, t) ==
    \/ c.serial_lock.owner = t
    \/ c.serial_lock.owner = NoTask /\ c.serial_lock.waiters = <<>>

\* The end of "async with self.serial_lock": the first waiter, if any, is
\* woken and gets the lock.
SerialLockReleased(c) ==
    IF c.serial_lock.waiters = <<>>
    THEN [c EXCEPT !.serial_lock.owner = NoTask]
    ELSE [c EXCEPT !.serial_lock =
                        [owner |-> Head(c.serial_lock.waiters),
                         waiters |-> Tail(c.serial_lock.waiters)],
                   !.call[Head(c.serial_lock.waiters)].at = "run"]

\* The steps of communicate: write(PREFIX_BYTE), write(command), read(1) for
\* the prefix, read(1) for the command, read(expected_size), read(1) for the
\* acknowledgment, and the return. The size of the read of a step:
ReadSize(k) == IF k.step = 5 THEN k.expected_size ELSE 1

\* The exception communicate raises on what a step has read, "none" when it
\* goes on.
ReadCheck(k, bytes) ==
    CASE k.step = 3 /\ bytes # <<PREFIX_BYTE>> -> "SynchronizationError"
      [] k.step = 4 /\ bytes # <<k.command>> -> "SynchronizationError"
      [] k.step = 6 /\ bytes = <<NAK>> -> "AcknowledgmentFailure"
      [] k.step = 6 /\ bytes # <<ACK>> -> "SynchronizationError"
      [] OTHER -> "none"

\* An entry of the trace of the line, unless no byte was moved.
Traced(trace, t, what, bytes) ==
    IF bytes = <<>> THEN trace
    ELSE Append(trace, [by |-> t, op |-> what, bytes |-> bytes])

\* Task t runs communicate from its current step until it is suspended: in
\* serial_lock.acquire() ("locked"), in the executor's serial.read with the
\* lock held ("read"), or for good ("done", "failed"). A write, and a read
\* that _read_buffer satisfies, do not suspend it.
RECURSIVE Communicate(_, _)
Communicate(c, t) ==
    LET k == c.call[t]
    IN  IF k.step = 7 THEN [c EXCEPT !.call[t].at = "done"]
        ELSE IF ~SerialLockFree(c, t)
        THEN [c EXCEPT !.serial_lock.waiters = Append(@, t),
                       !.call[t].at = "locked"]
        ELSE IF k.step \in {1, 2}
        THEN LET byte == IF k.step = 1 THEN PREFIX_BYTE ELSE k.command
             IN  Communicate(
                    SerialLockReleased(
                        [c EXCEPT !.out = Append(@, byte),
                                  !.trace = Traced(@, t, "write", <<byte>>),
                                  !.call[t].step = @ + 1,
                                  !.call[t].at = "run"]), t)
        ELSE IF Len(c._read_buffer) < ReadSize(k)
        THEN [c EXCEPT !.serial_lock.owner = t, !.call[t].at = "read"]
        ELSE LET bytes == SubSeq(c._read_buffer, 1, ReadSize(k))
                 left == SerialLockReleased(
                    [c EXCEPT !._read_buffer = Drop(@, ReadSize(k)),
                              !.trace = Traced(@, t, "read", bytes),
                              !.call[t].read = @ \o bytes,
                              !.call[t].at = "run"])
             IN  IF ReadCheck(k, bytes) # "none"
                 THEN [left EXCEPT !.call[t].at = "failed",
                                   !.call[t].exc = ReadCheck(k, bytes)]
                 ELSE Communicate(
                        [left EXCEPT !.call[t].step = @ + 1], t)

\* A task calls communicate.
CommunicateCall(t) ==
    /\ controller.call[t].at = "idle"
    /\ \E command \in ControllerCommands :
        controller' = Communicate(
            [controller EXCEPT !.call[t] =
                [command |-> command.command,
                 expected_size |-> command.expected_size, step |-> 1,
                 at |-> "run", read |-> <<>>, exc |-> "none"]], t)
    /\ UNCHANGED plmVars

\* A task that waited for serial_lock has got it and goes on.
CommunicateResume(t) ==
    /\ controller.call[t].at = "run"
    /\ controller' = Communicate(controller, t)
    /\ UNCHANGED plmVars

\* read(): serial.read(cnt), run in the executor, returns with up to cnt of
\* the bytes received, which are added to _read_buffer, and the task goes
\* on. (The bytes arrive within read_timeout.)
CommunicateRead(t) ==
    /\ controller.call[t].at = "read"
    /\ controller.in # <<>>
    /\ \E n \in {Min(ReadSize(controller.call[t]), Len(controller.in))} :
        controller' = Communicate(
            [controller EXCEPT
                !.in = Drop(@, n),
                !._read_buffer = @ \o SubSeq(controller.in, 1, n)], t)
    /\ UNCHANGED plmVars

\* The modem takes a command from the line and answers it; it acknowledges
\* 0x60, and acknowledges 0x69 or not.
ControllerModem ==
    /\ Len(controller.out) >= 2
    /\ controller.out[1] = PREFIX_BYTE
    /\ \E ack \in IF controller.out[2] = 96 THEN {ACK} ELSE {ACK, NAK} :
        controller' =
            [controller EXCEPT
                !.out = Drop(@, 2),
                !.in = @ \o ControllerReply(controller.out[2], ack)]
    /\ UNCHANGED plmVars

\* ------------------------------------------------------------- units.py

\* RAMP_RATES: (seconds, rate byte), the seconds in tenths of a second.
RAMP_RATES ==
    << <<1, 31>>, <<2, 30>>, <<3, 29>>, <<5, 28>>, <<20, 27>>, <<45, 26>>,
       <<65, 25>>, <<85, 24>>, <<190, 23>>, <<215, 22>>, <<235, 21>>,
       <<260, 20>>, <<280, 19>>, <<300, 18>>, <<320, 17>>, <<340, 16>>,
       <<385, 15>>, <<430, 14>>, <<470, 13>>, <<600, 12>>, <<900, 11>>,
       <<1200, 10>>, <<1500, 9>>, <<1800, 8>>, <<2100, 7>>, <<2400, 6>>,
       <<2700, 5>>, <<3000, 4>>, <<3600, 3>>, <<4200, 2>>, <<4800, 1>> >>

\* sorted((y, x) for (x, y) in array), for an array whose y are distinct.
InvertedSorted(array) ==
    LET pairs == {<<array[i][2], array[i][1]>> : i \in DOMAIN array}
    IN  [i \in 1 .. Len(array) |->
            CHOOSE p \in pairs :
                Cardinality({q \in pairs : q[1] < p[1]}) = i - 1]

\* The loop of project_onto from an index on.
RECURSIVE ProjectFrom(_, _, _)
ProjectFrom(value, array, index) ==
    IF index > Len(array) THEN array[Len(array)][2]
    ELSE IF array[index][1] > value THEN array[index - 1][2]
    ELSE ProjectFrom(value, array, index + 1)

\* project_onto returning the value of the entry found, not of the one
\* before it.
project_onto_found(value, array, invert) ==
    LET a == IF invert THEN InvertedSorted(array) ELSE array
        hits == {i \in 2 .. Len(a) : a[i][1] > value}
    IN  IF hits = {} THEN a[Len(a)][2]
        ELSE a[CHOOSE i \in hits : \A j \in hits : i <= j][2]

\* project_onto: the value of the entry before the first entry (from the
\* second on) whose key is greater than the input, or the last value.
project_onto(value, array, invert) ==
    ProjectFrom(value, IF invert THEN InvertedSorted(array) ELSE array, 2)

ramp_rate_from_seconds(value) == project_onto(value, RAMP_RATES, FALSE)

ramp_rate_to_seconds(value) == project_onto(value, RAMP_RATES, TRUE)

\* Python's round(n / d) for d > 0: to the nearest integer, a tie to the
\* even one. (The products and quotients of the conversions below are exact
\* or far from a tie in floating point for the inputs of this model.)
Round(n, d) ==
    LET q == n \div d
        r == n % d
    IN  IF 2 * r > d \/ (2 * r = d /\ q % 2 = 1) THEN q + 1 ELSE q

led_brightness_from_percent(value) == Round(Min(100, Max(0, value)) * 127, 100)

led_brightness_to_percent(value) == Round(Min(127, Max(0, value)) * 100, 127)

on_level_from_percent(value) == Round(Min(100, Max(0, value)) * 255, 100)

on_level_to_percent(value) == Round(Min(255, Max(0, value)) * 100, 255)

\* ---------------------------------- plm.py and objects.py: the operations

\* check_ack_or_nak: the exception it raises, "none" when it returns.
check_ack_or_nak(message) ==
    LET value == message.body[Len(message.body)]
    IN  IF value = ACK THEN "none"
        ELSE IF value = NAK THEN "CommandFailure"
        ELSE "RuntimeError"

\* get_info reading the firmware version one byte too far.
GetInfoResultShifted(response) ==
    LET categories == parse_device_categories(SubSeq(response.body, 4, 5))
    IN  [identity |-> SubSeq(response.body, 1, 3),
         category |-> categories.category,
         subcategory |-> categories.subcategory,
         firmware_version |-> response.body[7]]

\* get_info, after check_ack_or_nak: the dictionary it returns.
GetInfoResult(response) ==
    LET categories == parse_device_categories(SubSeq(response.body, 4, 5))
    IN  [identity |-> SubSeq(response.body, 1, 3),
         category |-> categories.category,
         subcategory |-> categories.subcategory,
         firmware_version |-> response.body[6]]

\* The sum of 2^flag over the flags of a message.
RECURSIVE FlagBits(_)
FlagBits(flags) ==
    IF flags = {} THEN 0
    ELSE LET flag == CHOOSE f \in flags : TRUE
         IN  2 ^ flag + FlagBits(flags \ {flag})

\* InsteonMessage.to_message_body: the target, the flags byte (max_hops in
\* bits 0-1, hops_left in bits 2-3, the flags in bits 4-7), the command bytes
\* and the user data.
to_message_body(message) ==
    message.target
        \o <<message.max_hops + 4 * message.hops_left
                + FlagBits(message.flags)>>
        \o message.command_bytes \o message.user_data

\* The device the operations talk to.
DeviceIdentity == <<1, 2, 3>>

\* A standard message (light on at level 0x7F) and an extended one (14 bytes
\* of user data, flag extended = 4).
StandardOutgoing ==
    [sender |-> <<26, 43, 60>>, target |-> DeviceIdentity, hops_left |-> 3,
     max_hops |-> 3, flags |-> {}, command_bytes |-> <<17, 127>>,
     user_data |-> <<>>]

ExtendedOutgoing ==
    [sender |-> <<26, 43, 60>>, target |-> DeviceIdentity, hops_left |-> 3,
     max_hops |-> 3, flags |-> {4}, command_bytes |-> <<9, 1>>,
     user_data |-> <<0, 0, 0, 0, 0, 0, 0, 0, 0, 0, 0, 0, 0, 246>>]

\* The message id_request sends.
IdRequestMessage(identity) ==
    [sender |-> <<26, 43, 60>>, target |-> identity, hops_left |-> 2,
     max_hops |-> 3, flags |-> {}, command_bytes |-> <<16, 0>>,
     user_data |-> <<>>]

\* The sum of a sequence of bytes.
RECURSIVE Sum(_)
Sum(bytes) == IF bytes = <<>> THEN 0 ELSE Head(bytes) + Sum(Tail(bytes))

\* ((0xff ^ s) + 1) & 0xff
TwosComplement(s) == ((255 - (s % 256)) + 1) % 256

\* _checksum: the user data with its last byte replaced by the checksum of
\* the command bytes and the first 13 bytes.
_checksum(command_bytes, user_data) ==
    LET front == SubSeq(user_data, 1, Len(user_data) - 1)
    IN  Append(front, TwosComplement(Sum(command_bytes) + Sum(front)))

\* bytes([0x00] * 14)
Zeros14 == [i \in 1 .. 14 |-> 0]

\* The modem's own identity (self.identity), that of InfoBody.
OwnIdentity == <<26, 43, 60>>

\* The message light_on hands to send_standard_or_extended_message.
light_on(identity, level, instant) ==
    [sender |-> OwnIdentity, target |-> identity, hops_left |-> 2,
     max_hops |-> 3, flags |-> {},
     command_bytes |-> <<IF instant THEN 18 ELSE 17,
                         on_level_from_percent(level)>>,
     user_data |-> <<>>]

\* The message of remote_enter_linking.
remote_enter_linking(identity, group) ==
    [sender |-> OwnIdentity, target |-> identity, hops_left |-> 2,
     max_hops |-> 3, flags |-> {4},
     command_bytes |-> <<9, group>>,
     user_data |-> _checksum(<<9, group>>, Zeros14)]

\* The message of remote_enter_unlinking: the checksummed user data is
\* computed and not used.
remote_enter_unlinking(identity, group) ==
    [sender |-> OwnIdentity, target |-> identity, hops_left |-> 2,
     max_hops |-> 3, flags |-> {},
     command_bytes |-> <<10, group>>,
     user_data |-> <<>>]

\* The message of get_device_info: the user data is not checksummed.
get_device_info(identity) ==
    [sender |-> OwnIdentity, target |-> identity, hops_left |-> 2,
     max_hops |-> 3, flags |-> {4},
     command_bytes |-> <<46, 0>>,
     user_data |-> Zeros14]

\* DeviceInfo: the fields of set_device_info and their selector bytes.
DeviceInfo ==
    [ramp_rate |-> 5, on_level |-> 6, led_brightness |-> 7,
     x10_address |-> 4]

\* The message of set_device_info, with the exception it raises instead
\* ("none" when it sends): the branch of x10_address reads the undefined
\* name device_subcategory.
set_device_info(identity, device_info, value) ==
    LET byte_value ==
            CASE device_info = "ramp_rate" -> ramp_rate_from_seconds(value)
              [] device_info = "led_brightness" ->
                    led_brightness_from_percent(value)
              [] device_info = "on_level" -> on_level_from_percent(value)
              [] OTHER -> 0
        user_data ==
            <<0, DeviceInfo[device_info]>> \o
            [i \in 1 .. 12 |-> IF i + 1 = 2 THEN byte_value ELSE 0]
    IN  [error |-> IF device_info \in {"ramp_rate", "led_brightness",
                                       "on_level"}
                   THEN "none" ELSE "NameError",
         sender |-> OwnIdentity, target |-> identity, hops_left |-> 2,
         max_hops |-> 3, flags |-> {4},
         command_bytes |-> <<46, 0>>,
         user_data |-> _checksum(<<46, 0>>, user_data)]

\* Request.write_flags: the flags byte.
write_flags(hops_left, max_hops, flags) ==
    (hops_left % 4) * 4 + (max_hops % 4) + FlagBits(flags)

\* Response.read_flags that takes hops_left from bits 1-2.
read_flags_shifted(flags_byte) ==
    [hops_left |-> (flags_byte \div 2) % 4,
     max_hops |-> flags_byte % 4,
     flags |-> {flag \in 4 .. 7 : (flags_byte \div (2 ^ flag)) % 2 = 1}]

\* Response.read_flags: ((hops_left, max_hops), flags) of a flags byte.
read_flags(flags_byte) ==
    [hops_left |-> (flags_byte \div 4) % 4,
     max_hops |-> flags_byte % 4,
     flags |-> {flag \in 4 .. 7 : (flags_byte \div (2 ^ flag)) % 2 = 1}]

\* InsteonMessage.from_message with the two hop counts taken from each
\* other's bits.
from_message_hops_swapped(message) ==
    [from_message_body(message.body) EXCEPT
        !.hops_left = message.body[7] % 4,
        !.max_hops = (message.body[7] \div 4) % 4]

\* InsteonMessage.from_message.
from_message(message) == from_message_body(message.body)

\* The device's answer to an ID request, as the modem reports it (0x50): a
\* broadcast whose target bytes are category 0x01, subcategory 0x00 and
\* firmware 0x41.
IdReply == format_message(80, <<1, 2, 3, 1, 0, 65, 139, 1, 0>>)

\* The operations a task calls: get_info, send_standard_or_extended_message
\* with a standard and with an extended message, the entry of an
\* all_linking_session (group 1, mode auto = 3) and id_request.
Operations ==
    { [name |-> "get_info", command_code |-> 96, body |-> <<>>,
       command_codes |-> {96}],
      [name |-> "send_standard_or_extended_message", command_code |-> 98,
       body |-> to_message_body(StandardOutgoing), command_codes |-> {98}],
      [name |-> "send_standard_or_extended_message", command_code |-> 98,
       body |-> to_message_body(ExtendedOutgoing), command_codes |-> {98}],
      [name |-> "all_linking_session", command_code |-> 100,
       body |-> <<3, 1>>, command_codes |-> {100}],
      [name |-> "id_request", command_code |-> 98,
       body |-> to_message_body(IdRequestMessage(DeviceIdentity)),
       command_codes |-> {98}] }

\* get_device_info(identity), as the operation a task calls.
DeviceInfoOperations ==
    { [name |-> "get_device_info", command_code |-> 98,
       body |-> to_message_body(get_device_info(DeviceIdentity)),
       command_codes |-> {98}] }

\* The subscription of the read_insteon_messages() scope of t's id_request
\* or get_device_info, and the scope.
ScopeOf(t) == "r1"

InsteonScope ==
    [name |-> "read_insteon_messages", command_code |-> 0, body |-> <<>>,
     command_codes |-> {80, 81}]

\* The operations that run inside a read_insteon_messages() scope.
Scoped(o) == o.name \in {"id_request", "get_device_info"}

\* A task calls one of operations. Up to the first await, id_request and
\* get_device_info enter their read_insteon_messages() scope and then, as
\* every operation, call write_read: the task takes the lock and sends, or
\* waits for the lock. A write that raises leaves write_read and the scope.
OperationCallOf(t, operations) ==
    /\ pc[t] = "idle"
    /\ pc[ScopeOf(t)] = "idle"
    /\ \E o \in operations :
        IF LockFree
           THEN \E ok \in WriteOutcomes :
                LET scoped == Scoped(o) /\ ok
                    u == ScopeOf(t)
                IN  /\ op' = [op EXCEPT ![t] = o,
                                        ![u] = IF Scoped(o)
                                               THEN InsteonScope ELSE @]
                    /\ queue' = [queue EXCEPT ![t] = <<>>, ![u] = <<>>]
                    /\ insteon_queue' =
                            [insteon_queue EXCEPT ![u] = <<>>]
                    /\ rq' = [rq EXCEPT ![u] =
                            IF scoped THEN "running"
                            ELSE IF Scoped(o) THEN "cancelled"
                            ELSE @]
                    /\ connected' =
                            IF ok
                            THEN Connect(t) \cup (IF scoped THEN {u} ELSE {})
                            ELSE Disconnect(t)
                    /\ sub' = [sub EXCEPT
                            ![t] = IF ok THEN Subscribed
                                   ELSE [Subscribed EXCEPT
                                            !.live = FALSE,
                                            !.to = Len(dispatched)],
                            ![u] = IF scoped THEN Subscribed ELSE @]
                    /\ pc' = [pc EXCEPT
                            ![t] = IF ok THEN "wr_get" ELSE "failed",
                            ![u] = IF scoped THEN "id_scope" ELSE @]
                    /\ exc' = [exc EXCEPT ![t] =
                            IF ok THEN @ ELSE "SerialException"]
                    /\ serialOut' =
                            IF ok
                            THEN Append(serialOut,
                                    [by |-> t,
                                     bytes |-> format_message(o.command_code,
                                                              o.body)])
                            ELSE serialOut
                    /\ serialIn' = IF ok THEN serialIn ELSE FlushInput
                    /\ events' = IF ok THEN events ELSE events + 1
                    /\ lockOwner' = IF ok THEN t ELSE ReleasedOwner
                    /\ lockWaiters' =
                            IF ok THEN lockWaiters ELSE ReleasedWaiters
           ELSE LET scoped == Scoped(o)
                    u == ScopeOf(t)
                IN  /\ op' = [op EXCEPT ![t] = o,
                                        ![u] = IF scoped THEN InsteonScope
                                               ELSE @]
                    /\ lockWaiters' = Append(lockWaiters, t)
                    /\ queue' = [queue EXCEPT ![u] = <<>>]
                    /\ insteon_queue' = [insteon_queue EXCEPT ![u] = <<>>]
                    /\ rq' = [rq EXCEPT ![u] =
                            IF scoped THEN "running" ELSE @]
                    /\ connected' =
                            connected \cup (IF scoped THEN {u} ELSE {})
                    /\ sub' = [sub EXCEPT
                            ![u] = IF scoped THEN Subscribed ELSE @]
                    /\ pc' = [pc EXCEPT
                            ![t] = "wr_lock",
                            ![u] = IF scoped THEN "id_scope" ELSE @]
                    /\ UNCHANGED <<lockOwner, serialIn, serialOut, events,
                                   exc>>
    /\ UNCHANGED <<buffer, result, expected, reader, loopq, ret, links,
                   modem, dispatched>>
    /\ UNCHANGED <<waitVars, closeVars, monitorVars, controller>>

\* A task calls an operation.
OperationCall(t) == OperationCallOf(t, Operations)

\* write_read of an operation gets its response and returns it (a
\* MessageFailure would make it sleep and retry), and the operation goes on
\* to its next await or to its end: check_ack_or_nak raises on NAK;
\* get_info returns the decoded information,
\* send_standard_or_extended_message the response; an all_linking_session
\* enters its body; id_request and get_device_info start to wait for the
\* device's messages, and leave their read_insteon_messages() scope when
\* check_ack_or_nak raises.
OperationResponse(t) ==
    /\ pc[t] = "wr_get"
    /\ queue[t] # <<>>
    /\ queue' = [queue EXCEPT ![t] = Tail(@)]
    /\ LET response == Head(queue[t])
           u == ScopeOf(t)
       IN  IF IsMessageFailure(response)
           THEN /\ pc' = [pc EXCEPT ![t] = "wr_sleep"]
                /\ sub' = [sub EXCEPT ![t].taken = Append(@, response)]
                /\ UNCHANGED <<ret, exc, rq, connected, lockOwner,
                               lockWaiters>>
           ELSE LET error == check_ack_or_nak(response)
                    closes == Scoped(op[t]) /\ error # "none"
                IN  /\ pc' = [pc EXCEPT
                        ![t] = IF error # "none" THEN "failed"
                               ELSE CASE op[t].name = "all_linking_session"
                                            -> "session"
                                      [] op[t].name = "id_request"
                                            -> "id_wait"
                                      [] op[t].name = "get_device_info"
                                            -> "info_ack"
                                      [] OTHER -> "done",
                        ![u] = IF closes THEN "failed" ELSE @]
                    /\ exc' = [exc EXCEPT ![t] = error]
                    /\ ret' = [ret EXCEPT ![t] =
                        IF error # "none" THEN @
                        ELSE CASE op[t].name = "get_info"
                                    -> GetInfoResult(response)
                               [] op[t].name =
                                    "send_standard_or_extended_message"
                                    -> response
                               [] OTHER -> @]
                    /\ rq' = [rq EXCEPT ![u] =
                        IF closes THEN "cancelled" ELSE @]
                    /\ connected' =
                        Disconnect(t) \ (IF closes THEN {u} ELSE {})
                    /\ sub' = [sub EXCEPT
                        ![t] = [Unsubscribed(t) EXCEPT
                                    !.taken = Append(@, response)],
                        ![u] = IF closes THEN Unsubscribed(u) ELSE @]
                    /\ lockOwner' = ReleasedOwner
                    /\ lockWaiters' = ReleasedWaiters
    /\ UNCHANGED <<buffer, result, expected, reader, serialIn, serialOut,
                   loopq, insteon_queue, op, links, modem, events,
                   dispatched>>
    /\ UNCHANGED <<waitVars, closeVars, monitorVars, controller>>

\* A task is cancelled while its operation awaits the response in
\* write_read: as CancelCommand; id_request and get_device_info leave their
\* scope too, and an all_linking_session that is still in __aenter__ runs no
\* __aexit__.
OperationCancel(t) ==
    /\ pc[t] = "wr_get"
    /\ events < MaxEvents
    /\ events' = events + 1
    /\ LET u == ScopeOf(t)
           closes == Scoped(op[t])
       IN  /\ connected' = Disconnect(t) \ (IF closes THEN {u} ELSE {})
           /\ sub' = [sub EXCEPT
                   ![t] = Unsubscribed(t),
                   ![u] = IF closes THEN Unsubscribed(u) ELSE @]
           /\ rq' = [rq EXCEPT ![u] = IF closes THEN "cancelled" ELSE @]
           /\ pc' = [pc EXCEPT ![t] = "cancelled",
                               ![u] = IF closes THEN "cancelled" ELSE @]
    /\ \E flush \in CancelFlushes :
        serialIn' = IF flush THEN FlushInput ELSE serialIn
    /\ lockOwner' = ReleasedOwner
    /\ lockWaiters' = ReleasedWaiters
    /\ exc' = [exc EXCEPT ![t] = "CancelledError"]
    /\ UNCHANGED <<buffer, result, expected, reader, serialOut, loopq, queue,
                   insteon_queue, op, ret, links, modem, dispatched>>
    /\ UNCHANGED <<waitVars, closeVars, monitorVars, controller>>

\* ------------------------------------------------------- the specification

\* Two tasks run commands; the modem sends button event reports on its own.
Init ==
    /\ buffer = <<>>
    /\ result = NoResult
    /\ MuxInit({ButtonEvent})

Next ==
    \/ ModemAnswer
    \/ ModemSpontaneous
    \/ ReaderRun
    \/ Emit
    \/ \E t \in CommandTasks :
        \/ WriteReadCall(t)
        \/ WriteReadResume(t)
        \/ WriteReadResponse(t)
        \/ LinkRecordsCall(t)
        \/ LinkRecordsResume(t)
        \/ LinkRecordsAck(t)
        \/ LinkRecordsRecord(t)
        \/ CancelLockWait(t)
        \/ CancelCommand(t)

Spec == Init /\ [][Next]_vars

\* One task runs write_read while another is in a read() or
\* read_insteon_messages() scope; the modem sends button event reports and
\* standard messages on its own.
ScopeInit ==
    /\ buffer = <<>>
    /\ result = NoResult
    /\ MuxInit({ButtonEvent, StandardMessage})

ScopeNext ==
    \/ ModemAnswer
    \/ ModemSpontaneous
    \/ ReaderRun
    \/ Emit
    \/ WriteReadCall("c1")
    \/ WriteReadResponse("c1")
    \/ CancelCommand("c1")
    \/ \E t \in ReaderTasks :
        \/ ReadEnter(t)
        \/ ReadGet(t)
        \/ ReadQueue(t)
        \/ InsteonGet(t)
        \/ ReadExit(t)

ScopeSpec == ScopeInit /\ [][ScopeNext]_vars

\* The same, with the scheduling the program runs under: the modem answers
\* every command, the reader thread keeps reading (_run loops until stopped),
\* the event loop runs every callback posted to it and resumes a task whose
\* queue.get() can return.
FairScopeSpec ==
    /\ ScopeSpec
    /\ WF_vars(ModemAnswer)
    /\ WF_vars(ReaderRun)
    /\ WF_vars(Emit)
    /\ WF_vars(WriteReadResponse("c1"))

\* One task enumerates the link records of the modem, which sends button
\* event reports on its own.
LinkInit ==
    /\ buffer = <<>>
    /\ result = NoResult
    /\ MuxInit({ButtonEvent})

LinkNext ==
    \/ ModemAnswer
    \/ ModemSpontaneous
    \/ ReaderRun
    \/ Emit
    \/ LinkRecordsCall("c1")
    \/ LinkRecordsAck("c1")
    \/ LinkRecordsRecord("c1")
    \/ CancelCommand("c1")

LinkSpec == LinkInit /\ [][LinkNext]_vars

\* The same, with the scheduling the program runs under.
FairLinkSpec ==
    /\ LinkSpec
    /\ WF_vars(ModemAnswer)
    /\ WF_vars(ReaderRun)
    /\ WF_vars(Emit)
    /\ WF_vars(LinkRecordsAck("c1"))
    /\ WF_vars(LinkRecordsRecord("c1"))

\* The information the modem answers 0x60 with: that of scenario S1, a
\* known subcategory (0x11 of category 0x03) and an unknown category (0x30).
InfoBodies ==
    { InfoBody, <<1, 2, 3, 3, 17, 155>>, <<4, 5, 6, 48, 0, 1>> }

\* One task calls the operations; the modem sends button event reports and
\* the device's answer to an ID request on its own. The steps that follow
\* the entry of an all_linking_session and the acknowledgment of an
\* id_request are never reached (the echo of 0x64 and of 0x62 ends the
\* reader thread).
OperationsInit ==
    /\ buffer = <<>>
    /\ result = NoResult
    /\ \E info \in InfoBodies : MuxInitWith({ButtonEvent, IdReply}, info)

OperationsNext ==
    \/ ModemAnswer
    \/ ModemSpontaneous
    \/ ReaderRun
    \/ Emit
    \/ OperationCall("c1")
    \/ OperationResponse("c1")
    \/ OperationCancel("c1")
    \/ ReadQueue("r1")

OperationsSpec == OperationsInit /\ [][OperationsNext]_vars

\* The same, with the scheduling the program runs under.
FairOperationsSpec ==
    /\ OperationsSpec
    /\ WF_vars(ModemAnswer)
    /\ WF_vars(ReaderRun)
    /\ WF_vars(Emit)
    /\ WF_vars(OperationResponse("c1"))
    /\ WF_vars(ReadQueue("r1"))

\* The mode bytes of the all-linking completed frames the modem sends: the
\* values of AllLinkMode and one that is none of them.
ModeSample == {0, 1, 2, 3, 254, 255}

\* An all-linking completed frame (0x53): mode, group 1, identity 01.02.03,
\* category 0x01, subcategory 0x00, firmware 0x41.
AllLinkingCompleted(mode) ==
    format_message(83, <<mode, 1, 1, 2, 3, 1, 0, 65>>)

\* Futures of wait_all_linking_completed are created and cancelled while the
\* modem reports completed links and a task reads in a read() scope.
WaitInit ==
    /\ buffer = <<>>
    /\ result = NoResult
    /\ MuxInit({AllLinkingCompleted(mode) : mode \in ModeSample})

WaitNext ==
    \/ ModemSpontaneous
    \/ ReaderRun
    \/ Emit
    \/ ReadEnter("r1")
    \/ ReadGet("r1")
    \/ \E f \in Futures : WaitAllLinkingCompleted(f)
    \/ \E f \in Futures : CancelFuture(f)
    \/ \E f \in Futures : OnDone(f)

WaitSpec == WaitInit /\ [][WaitNext]_vars

\* --------------------------------------- objects.py, called on a byte string

Byte == 0 .. 255

\* The bodies of 0x57 messages handed to parse_all_link_record_response:
\* every flags byte, two groups.
RecordBodies ==
    { <<flags, group, 170, 187, 204, 1, 2, 3>> :
        flags \in Byte, group \in {1, 2} }

ObjectsInit ==
    /\ buffer \in RecordBodies
    /\ result = NoResult
    /\ MuxInit({})

\* One call of parse_all_link_record_response(buffer).
CallParseAllLinkRecord ==
    /\ result.call = "none"
    /\ result' = [NoResult EXCEPT
            !.call = "parse_all_link_record_response",
            !.input = buffer,
            !.message = parse_all_link_record_response(buffer)]
    /\ UNCHANGED <<buffer, muxVars>>

ObjectsNext == CallParseAllLinkRecord

ObjectsSpec == ObjectsInit /\ [][ObjectsNext]_vars

\* close() is called while the modem sends frames and the thread reads
\* them.
CloseInit ==
    /\ buffer = <<>>
    /\ result = NoResult
    /\ MuxInit({ButtonEvent, StandardMessage})

CloseNext ==
    \/ ModemSpontaneous
    \/ ReaderTest
    \/ ReaderRead
    \/ Emit
    \/ CloseCall
    \/ CloseJoin
    \/ CloseSerial

CloseSpec == CloseInit /\ [][CloseNext]_vars

\* The same, with the thread and the caller of close() scheduled and every
\* read returning (with data or by its timeout).
FairCloseSpec ==
    /\ CloseSpec
    /\ WF_vars(ReaderTest)
    /\ WF_vars(ReaderRead)
    /\ WF_vars(CloseJoin)
    /\ WF_vars(CloseSerial)

\* monitor() is called, interrupted and cancelled while the modem sends
\* button event reports and standard messages, which are read and
\* dispatched.
MonitorInit ==
    /\ buffer = <<>>
    /\ result = NoResult
    /\ MuxInit({ButtonEvent, StandardMessage})

MonitorNext ==
    \/ ModemSpontaneous
    \/ ReaderRun
    \/ Emit
    \/ MonitorCall
    \/ Interrupt
    \/ MonitorResume
    \/ MonitorCancel

MonitorSpec == MonitorInit /\ [][MonitorNext]_vars

\* The same, with the scheduling the program runs under: a call whose event
\* is set resumes.
FairMonitorSpec ==
    /\ MonitorSpec
    /\ WF_vars(MonitorResume)

\* ------------------------------------------- plm.py: the constructor

\* The operation the constructor runs: get_info.
ConstructorOperations == {o \in Operations : o.name = "get_info"}

\* __init__ calls loop.run_until_complete(self.get_info()).
ConstructorGetInfo == OperationCallOf("c1", ConstructorOperations)

\* on_message.emit, run by the event loop: during construction the loop
\* runs only inside run_until_complete, while get_info is pending.
ConstructorEmit ==
    /\ on_all_linking_completed = Unassigned => pc["c1"] = "wr_get"
    /\ Emit

\* __init__ after get_info has returned: the identity fields are set from
\* its result and on_all_linking_completed is created.
ConstructorFinish ==
    /\ on_all_linking_completed = Unassigned
    /\ pc["c1"] = "done"
    /\ on_all_linking_completed' = <<>>
    /\ UNCHANGED <<buffer, result, expected, reader, serialIn, serialOut,
                   loopq, connected, queue, insteon_queue, rq, lockOwner,
                   lockWaiters, pc, op, ret, exc, links, modem, events,
                   dispatched, sub, future, loop_error, closeVars,
                   monitorVars, controller>>

\* The constructor runs, from the start of the reader thread on, while the
\* modem sends button event reports and all-linking completed frames on its
\* own.
ConstructInit ==
    /\ buffer = <<>>
    /\ result = NoResult
    /\ MuxInitAt({ButtonEvent, AllLinkingCompleted(1)}, InfoBody, Unassigned)

ConstructNext ==
    \/ ModemAnswer
    \/ ModemSpontaneous
    \/ ReaderRun
    \/ ConstructorEmit
    \/ ConstructorGetInfo
    \/ OperationResponse("c1")
    \/ ConstructorFinish

ConstructSpec == ConstructInit /\ [][ConstructNext]_vars

\* ------------------------------------------- plm.py: get_device_info

\* The device's answer to get_device_info, as the modem reports it: a
\* standard acknowledgment (0x50, flags 0x2F) and an extended message (0x51,
\* flags 0x1F) whose user data holds the X10 address 0x20, 0x01, the ramp
\* rate 0x1C, the on level 0xFF and the LED level 0x7F.
DeviceInfoReply ==
    format_message(80, DeviceIdentity \o OwnIdentity \o <<47, 46, 0>>)
    \o format_message(81, DeviceIdentity \o OwnIdentity \o <<31, 46, 0>>
                \o <<0, 1, 0, 0, 32, 1, 28, 255, 127, 0, 0, 0, 0, 0>>)

\* One task calls get_info or get_device_info; the modem reports a standard
\* message of another device (11.22.33) and the device's answer on its own.
\* The steps that follow the acknowledgment of get_device_info's command are
\* never reached (the echo of 0x62 ends the reader thread).
DeviceInfoInit ==
    /\ buffer = <<>>
    /\ result = NoResult
    /\ MuxInit({StandardMessage, DeviceInfoReply})

DeviceInfoNext ==
    \/ ModemAnswer
    \/ ModemSpontaneous
    \/ ReaderRun
    \/ Emit
    \/ OperationCallOf("c1", ConstructorOperations \cup DeviceInfoOperations)
    \/ OperationResponse("c1")
    \/ ReadQueue("r1")

DeviceInfoSpec == DeviceInfoInit /\ [][DeviceInfoNext]_vars

\* The same, with the scheduling the program runs under.
FairDeviceInfoSpec ==
    /\ DeviceInfoSpec
    /\ WF_vars(ModemAnswer)
    /\ WF_vars(ReaderRun)
    /\ WF_vars(Emit)
    /\ WF_vars(OperationResponse("c1"))
    /\ WF_vars(ReadQueue("r1"))

\* Two tasks call Controller.communicate, each once.
ControllerInit ==
    /\ buffer = <<>>
    /\ result = NoResult
    /\ MuxInit({})

ControllerNext ==
    \/ ControllerModem
    \/ \E t \in ControllerTasks :
        \/ CommunicateCall(t)
        \/ CommunicateResume(t)
        \/ CommunicateRead(t)

ControllerSpec == ControllerInit /\ [][ControllerNext]_vars

\* ------------------------- units.py, messages.py, objects.py: called alone

\* The levels light_on and set_device_info are called with, in percent: the
\* range and one value on each side of it.
Levels == -1 .. 101

\* The groups of the remote linking operations.
Groups == {0, 1, 2, 255}

\* The seconds of RAMP_RATES, in tenths.
RampSeconds == {RAMP_RATES[i][1] : i \in DOMAIN RAMP_RATES}

\* The rate bytes of RAMP_RATES.
RampBytes == {RAMP_RATES[i][2] : i \in DOMAIN RAMP_RATES}

\* The flags of InsteonMessageFlag / Flags: extended, ack, all_link,
\* broadcast.
InsteonMessageFlag == {4, 5, 6, 7}

\* Standard (0x50, 9 bytes) and extended (0x51, 23 bytes) messages received,
\* with every flags byte, and the standard message 11.22.33 -> 44.55.66 with
\* flags byte 0x02 and command 13 00.
InboundMessages ==
    { IncomingMessage(80, <<170, 187, 204, 221, 238, 255, f, 46, 1>>) :
        f \in Byte }
    \cup
    { IncomingMessage(80, <<17, 34, 51, 68, 85, 102, 2, 19, 0>>) }
    \cup
    { IncomingMessage(81, <<170, 187, 204, 221, 238, 255, f, 46, 1,
                            1, 2, 3, 4, 5, 6, 7, 8, 9, 10, 11, 12, 13, 14>>) :
        f \in Byte }

\* What a call leaves in result.
Called(call, input, output) ==
    [call |-> call, input |-> input, output |-> output]

FunctionsInit ==
    /\ buffer = <<>>
    /\ result = NoResult
    /\ MuxInit({})

\* light_on: the message, the frame send_standard_or_extended_message writes
\* for it, and the level returned.
CallLightOn ==
    /\ result.call = "none"
    /\ \E level \in Levels, instant \in BOOLEAN :
        LET message == light_on(DeviceIdentity, level, instant)
        IN  result' =
                Called("light_on", <<DeviceIdentity, level, instant>>,
                       [message |-> message,
                        wire |-> format_message(98, to_message_body(message)),
                        returned |->
                            on_level_to_percent(message.command_bytes[2])])
    /\ UNCHANGED <<buffer, muxVars>>

CallRemoteEnterLinking ==
    /\ result.call = "none"
    /\ \E group \in Groups :
        result' = Called("remote_enter_linking", <<DeviceIdentity, group>>,
                         remote_enter_linking(DeviceIdentity, group))
    /\ UNCHANGED <<buffer, muxVars>>

CallRemoteEnterUnlinking ==
    /\ result.call = "none"
    /\ \E group \in Groups :
        result' = Called("remote_enter_unlinking", <<DeviceIdentity, group>>,
                         remote_enter_unlinking(DeviceIdentity, group))
    /\ UNCHANGED <<buffer, muxVars>>

CallGetDeviceInfo ==
    /\ result.call = "none"
    /\ result' = Called("get_device_info", <<DeviceIdentity>>,
                        get_device_info(DeviceIdentity))
    /\ UNCHANGED <<buffer, muxVars>>

\* set_device_info, the value in percent or in tenths of a second.
CallSetDeviceInfo ==
    /\ result.call = "none"
    /\ \E device_info \in DOMAIN DeviceInfo,
          value \in Levels \cup RampSeconds :
        result' = Called("set_device_info",
                         <<DeviceIdentity, device_info, value>>,
                         set_device_info(DeviceIdentity, device_info, value))
    /\ UNCHANGED <<buffer, muxVars>>

\* on_level_from_percent(on_level_to_percent(b))
CallOnLevel ==
    /\ result.call = "none"
    /\ \E b \in Byte :
        result' = Called("on_level", b,
                         on_level_from_percent(on_level_to_percent(b)))
    /\ UNCHANGED <<buffer, muxVars>>

\* ramp_rate_from_seconds(ramp_rate_to_seconds(b))
CallRampRate ==
    /\ result.call = "none"
    /\ \E b \in RampBytes :
        result' = Called("ramp_rate", b,
                         ramp_rate_from_seconds(ramp_rate_to_seconds(b)))
    /\ UNCHANGED <<buffer, muxVars>>

\* ramp_rate_to_seconds(ramp_rate_from_seconds(s))
CallRampSeconds ==
    /\ result.call = "none"
    /\ \E seconds \in RampSeconds :
        result' = Called("ramp_seconds", seconds,
                         ramp_rate_to_seconds(ramp_rate_from_seconds(seconds)))
    /\ UNCHANGED <<buffer, muxVars>>

\* write_flags, and read_flags on the byte written.
CallWriteFlags ==
    /\ result.call = "none"
    /\ \E hops_left \in 0 .. 3, max_hops \in 0 .. 3,
          flags \in SUBSET InsteonMessageFlag :
        result' =
            Called("write_flags",
                   [hops_left |-> hops_left, max_hops |-> max_hops,
                    flags |-> flags],
                   [flags_byte |-> write_flags(hops_left, max_hops, flags),
                    read |-> read_flags(write_flags(hops_left, max_hops,
                                                    flags))])
    /\ UNCHANGED <<buffer, muxVars>>

CallFromMessage ==
    /\ result.call = "none"
    /\ \E message \in InboundMessages :
        result' = Called("from_message", message, from_message(message))
    /\ UNCHANGED <<buffer, muxVars>>

CallParseDeviceCategories ==
    /\ result.call = "none"
    /\ \E c \in Byte, s \in Byte :
        result' = Called("parse_device_categories", <<c, s>>,
                         parse_device_categories(<<c, s>>))
    /\ UNCHANGED <<buffer, muxVars>>

\* The inputs of project_onto, in tenths of a second or as rate bytes: below,
\* at, between and above the keys of RAMP_RATES in either direction.
ProjectValues == (0 .. 32) \cup {4799, 4800, 4801}

\* project_onto(value, RAMP_RATES, invert)
CallProjectOnto ==
    /\ result.call = "none"
    /\ \E value \in ProjectValues, invert \in BOOLEAN :
        result' = Called("project_onto", [value |-> value, invert |-> invert],
                         project_onto(value, RAMP_RATES, invert))
    /\ UNCHANGED <<buffer, muxVars>>

FunctionsNext ==
    \/ CallLightOn
    \/ CallRemoteEnterLinking
    \/ CallRemoteEnterUnlinking
    \/ CallGetDeviceInfo
    \/ CallSetDeviceInfo
    \/ CallOnLevel
    \/ CallRampRate
    \/ CallRampSeconds
    \/ CallWriteFlags
    \/ CallFromMessage
    \/ CallParseDeviceCategories
    \/ CallProjectOnto

FunctionsSpec == FunctionsInit /\ [][FunctionsNext]_vars

\* ---------------------------------------------------- claims on the parser

\* The wire bytes of a sequence of messages.
RECURSIVE Wire(_)
Wire(messages) ==
    IF messages = <<>> THEN <<>>
    ELSE format_message(Head(messages).command_code, Head(messages).body)
            \o Wire(Tail(messages))

\* C1: every call of parse_message and of parse_messages returns (no
\* exception escapes it), and what it returns is either at least one complete
\* frame or no frame and a request for at least one more byte.
C1_ParserTotal ==
    result.call # "none" =>
        /\ result.error = "none"
        /\ \/ result.message # None
           \/ result.messages # <<>>
           \/ result.expected >= 1

\* The input of the last parse_message call is junk without 0x02 of length j,
\* then a complete frame whose command code has a body size.
JunkThenFrame(j) ==
    LET in == result.input
    IN  /\ result.call = "parse_message"
        /\ \A i \in 1 .. j : in[i] # 2
        /\ Len(in) >= j + 2
        /\ in[j + 1] = 2
        /\ in[j + 2] \in DOMAIN BODY_SIZES
        /\ Len(in) >= j + 2 + BODY_SIZES[in[j + 2]]

\* C8: parse_message on J, then the wire bytes of a frame F with a known body
\* size, then any trailing bytes, where J holds no 0x02, returns exactly F,
\* removes the |J| junk bytes and the bytes of F and no other, leaves the
\* trailing bytes in the buffer, and logs the discard warning exactly when J
\* has a byte other than 0x00.
C8_Resync ==
    \A j \in 0 .. Len(result.input) :
        JunkThenFrame(j) =>
            LET in == result.input
                L == BODY_SIZES[in[j + 2]]
            IN  /\ result.error = "none"
                /\ result.message =
                       [command_code |-> in[j + 2],
                        body |-> [i \in 1 .. L |-> in[j + 2 + i]]]
                /\ Len(in) - Len(buffer) = j + L + 2
                /\ buffer = [i \in 1 .. Len(in) - (j + L + 2) |->
                                in[j + L + 2 + i]]
                /\ result.warned <=> \E i \in 1 .. j : in[i] # 0

\* C8's case: junk with a nonzero byte, a frame with a body, a trailing byte.
C8_Witness ==
    /\ result.input = <<1, 2, 84, 0, 85>>
    /\ JunkThenFrame(1)
    /\ result.message = IncomingMessage(84, <<0>>)
    /\ result.warned
    /\ buffer = <<85>>

\* The sequences of complete frames, with command codes that have a body
\* size, whose wire bytes are n bytes of ByteSample.
RECURSIVE FrameSeqs(_)
FrameSeqs(n) ==
    IF n = 0 THEN {<<>>}
    ELSE UNION {
            { <<IncomingMessage(c, body)>> \o rest :
                body \in [1 .. BODY_SIZES[c] -> ByteSample],
                rest \in FrameSeqs(n - 2 - BODY_SIZES[c]) } :
            c \in {k \in ByteSample \cap DOMAIN BODY_SIZES :
                     BODY_SIZES[k] + 2 <= n} }

\* C9: parse_messages on the concatenation of n complete frames with known
\* command codes returns those n frames in wire order, leaves the buffer
\* empty and returns a next-read hint of 2.
C9_ParseAll ==
    result.call = "parse_messages" =>
        \A frames \in FrameSeqs(Len(result.input)) :
            Wire(frames) = result.input =>
                /\ result.error = "none"
                /\ result.messages = frames
                /\ buffer = <<>>
                /\ result.expected = 2

\* C9's case: two frames, the first with a body.
C9_Witness ==
    /\ result.call = "parse_messages"
    /\ result.input = <<2, 84, 1, 2, 85>>
    /\ Len(result.messages) = 2
    /\ buffer = <<>>

\* The input of the last parse_message call starts with 0x02 and is no
\* complete frame yet.
IncompleteFrame ==
    LET in == result.input
    IN  /\ result.call = "parse_message"
        /\ in # <<>>
        /\ in[1] = 2
        /\ \/ Len(in) < 2
           \/ /\ in[2] \in DOMAIN BODY_SIZES
              /\ Len(in) < BODY_SIZES[in[2]] + 2

\* C10: parse_message on a buffer that starts with 0x02 and holds no complete
\* frame yet returns no frame, removes no byte and returns the number of
\* bytes still missing: 2 minus the bytes held, or L + 2 minus the bytes
\* held for a known command code of body size L.
C10_Incomplete ==
    IncompleteFrame =>
        LET in == result.input
        IN  /\ result.error = "none"
            /\ result.message = None
            /\ buffer = in
            /\ result.expected =
                   IF Len(in) < 2 THEN 2 - Len(in)
                   ELSE BODY_SIZES[in[2]] + 2 - Len(in)

\* C10's case: a command code of body size 2 with one body byte held.
C10_Witness ==
    /\ IncompleteFrame
    /\ Len(result.input) = 3
    /\ result.input[2] = 82
    /\ result.expected = 1

\* The input of the last parse_message call is junk without 0x02 of length j,
\* then 0x02, then a byte that is no command code.
JunkThenUnknown(j) ==
    LET in == result.input
    IN  /\ result.call = "parse_message"
        /\ Len(in) >= j + 2
        /\ \A i \in 1 .. j : in[i] # 2
        /\ in[j + 1] = 2
        /\ in[j + 2] \notin CommandCode

\* C11: when the byte that follows 0x02 is no known command code,
\* parse_message discards the bytes up to and including those two and no
\* other, returns no message and a hint of 2, and keeps every later byte.
C11_UnknownCode ==
    \A j \in 0 .. Len(result.input) :
        JunkThenUnknown(j) =>
            /\ result.error = "none"
            /\ result.message = None
            /\ result.expected = 2
            /\ result.unknown
            /\ buffer = Drop(result.input, j + 2)

\* C11's case: 0x02 0x01, then the start of a frame, which is kept.
C11_Witness ==
    /\ result.input = <<2, 1, 2, 85>>
    /\ JunkThenUnknown(0)
    /\ result.message = None
    /\ buffer = <<2, 85>>


\* ----------------------------------------------- claims on the multiplexer

\* A command awaits its response (or sleeps before a retry) at these places.
AwaitingResponse == {"wr_get", "wr_sleep", "galr_ack", "galr_rec"}

\* An operation has been left at these places.
Exited == {"done", "failed", "cancelled"}

Range(s) == {s[i] : i \in DOMAIN s}

\* The messages among frames that read_one accepts for command_codes.
Accepted(command_codes, frames) ==
    SelectSeq(frames, LAMBDA m :
        command_codes = NoCodes \/ m.command_code \in command_codes)

\* The messages dispatched while t's subscription was connected.
LiveSegment(t) ==
    SubSeq(dispatched, sub[t].from + 1,
           IF sub[t].live THEN Len(dispatched) ELSE sub[t].to)

\* Every message that was put on t's queue: those taken, then those held.
Delivered(t) == sub[t].taken \o queue[t]

\* Every decoded message that was put on t's insteon_queue.
DeliveredDecoded(t) == sub[t].itaken \o insteon_queue[t]

Decoded(frames) ==
    [i \in 1 .. Len(frames) |-> from_message_body(frames[i].body)]

C3_RetriesOnNak ==
    \A t \in CommandTasks :
        (op[t].name = "write_read" /\ pc[t] = "done" /\ ret[t].body # <<>>)
            => ret[t].body[Len(ret[t].body)] # NAK

\* C4: write_read returns the first message with an accepted command code
\* that is dispatched after it subscribed, and once the modem has answered
\* its command (with the echo of the command, which has an accepted code)
\* write_read stops waiting, whatever else the modem sends.
C4_Response ==
    /\ [](\A t \in CommandTasks :
            (op[t].name = "write_read" /\ pc[t] = "done") =>
                /\ Accepted(op[t].command_codes, LiveSegment(t)) # <<>>
                /\ ret[t] = Accepted(op[t].command_codes, LiveSegment(t))[1])
    /\ (pc["c1"] = "wr_get" /\ serialOut = <<>>) ~> (pc["c1"] # "wr_get")

C6_ScopeCleanup ==
    /\ [](\A t \in Tasks : pc[t] \in Exited => t \notin connected)
    /\ [][\A t \in Tasks :
            (pc[t] \in Exited /\ pc'[t] \in Exited) =>
                /\ queue'[t] = queue[t]
                /\ insteon_queue'[t] = insteon_queue[t]]_vars

\* C6's case: after the scope was left, a message it accepted while live has
\* been dispatched.
C6_Witness ==
    /\ pc["r1"] \in Exited
    /\ Len(dispatched) > sub["r1"].to
    /\ Accepted(CommandCodes("r1"),
                SubSeq(dispatched, sub["r1"].to + 1, Len(dispatched))) # <<>>

\* C7: once write_read or get_all_link_records is left, by return, exception
\* or cancellation, the task neither holds the write lock nor waits for it
\* and its read_one is not connected; the lock is held by a task inside a
\* command only, and is not left free while a task waits for it.
C7_Released ==
    /\ \A t \in CommandTasks :
        pc[t] \in Exited =>
            /\ lockOwner # t
            /\ t \notin Range(lockWaiters)
            /\ t \notin connected
    /\ lockOwner # NoTask =>
        pc[lockOwner] \in AwaitingResponse \cup {"wr_lock", "galr_lock"}
    /\ lockOwner = NoTask => lockWaiters = <<>>

\* C7's case: c1 was cancelled after it had subscribed, and c2 has since got
\* the lock and sent its command.
C7_Witness ==
    /\ pc["c1"] = "cancelled"
    /\ sub["c1"] # NoSub
    /\ pc["c2"] \in AwaitingResponse
    /\ lockOwner = "c2"

\* ------------------------------------------------ claims on the operations

\* The link records among the messages dispatched, decoded.
RecordsDispatched ==
    LET frames == SelectSeq(dispatched, LAMBDA m : m.command_code = 87)
    IN  [i \in 1 .. Len(frames) |->
            parse_all_link_record_response(frames[i].body)]

\* The answers to 0x69 and 0x6A among the messages dispatched.
AnswersDispatched ==
    SelectSeq(dispatched, LAMBDA m : m.command_code \in {105, 106})

\* C13: get_all_link_records writes 0x69 first and 0x6A after each record it
\* has taken, and writes nothing else; it returns at the first NAK, and then
\* every record received is in exactly one of the two lists, under its role;
\* it fails only when a write fails; and once called it comes to an end (the
\* modem answers NAK when no record is left).
C13_Enumerates ==
    /\ [][Len(serialOut') > Len(serialOut) =>
            LET w == serialOut'[Len(serialOut')]
            IN  \/ /\ pc[w.by] = "idle"
                   /\ w.bytes = <<2, 105>>
                \/ /\ pc[w.by] = "galr_rec"
                   /\ w.bytes = <<2, 106>>
                   /\ Head(queue[w.by]).command_code = 87
                   /\ Len(links'[w.by].controllers)
                        + Len(links'[w.by].responders)
                      = Len(links[w.by].controllers)
                        + Len(links[w.by].responders) + 1]_vars
    /\ [](pc["c1"] = "done" =>
            LET n == Len(AnswersDispatched)
                l == links["c1"]
            IN  /\ n >= 1
                /\ AnswersDispatched[n].body = <<NAK>>
                /\ \A i \in 1 .. n - 1 : AnswersDispatched[i].body = <<ACK>>
                /\ Len(l.controllers) + Len(l.responders)
                      = Len(RecordsDispatched)
                /\ Range(l.controllers) =
                      {r \in Range(RecordsDispatched) : r.role = "controller"}
                /\ Range(l.responders) =
                      {r \in Range(RecordsDispatched) : r.role = "responder"})
    /\ [](pc["c1"] = "failed" => exc["c1"] = "SerialException")
    /\ (pc["c1"] \in {"galr_ack", "galr_rec"}) ~> (pc["c1"] \in Exited)

\* C13's case: two records were received before the NAK of a 0x6A.
C13_Witness ==
    /\ pc["c1"] = "done"
    /\ Len(RecordsDispatched) = 2
    /\ AnswersDispatched[Len(AnswersDispatched)] = IncomingMessage(106, <<NAK>>)

\* The messages of scenario S2.
ScenarioS2 ==
    << IncomingMessage(105, <<ACK>>),
       IncomingMessage(87, <<226, 1, 170, 187, 204, 1, 2, 3>>),
       IncomingMessage(106, <<ACK>>),
       IncomingMessage(87, <<162, 2, 221, 238, 255, 4, 5, 6>>),
       IncomingMessage(106, <<NAK>>) >>

\* C14: when the modem's stream is that of scenario S2, get_all_link_records
\* returns the DD.EE.FF group 2 record as the only controller and the
\* AA.BB.CC group 1 record as the only responder.
C14_ScenarioS2 ==
    (pc["c1"] = "done" /\ dispatched = ScenarioS2) =>
        /\ links["c1"].controllers =
            << [identity |-> <<221, 238, 255>>, group |-> 2,
                role |-> "controller", data |-> <<4, 5, 6>>] >>
        /\ links["c1"].responders =
            << [identity |-> <<170, 187, 204>>, group |-> 1,
                role |-> "responder", data |-> <<1, 2, 3>>] >>

\* C14's case: the run of scenario S2 has returned.
C14_Witness ==
    /\ pc["c1"] = "done"
    /\ dispatched = ScenarioS2
    /\ Len(links["c1"].controllers) = 1
    /\ Len(links["c1"].responders) = 1

\* Bit b of a byte.
Bit(value, b) == (value \div (2 ^ b)) % 2 = 1

\* C15: a link record whose flags byte has bit 6 set is a controller and one
\* whose bit 6 is clear is a responder.
C15_ControllerBit ==
    result.call = "parse_all_link_record_response" =>
        result.message.role =
            IF Bit(result.input[1], 6) THEN "controller" ELSE "responder"

\* The last message a task took from its queue.
LastTaken(t) == sub[t].taken[Len(sub[t].taken)]

\* The task has called send_standard_or_extended_message.
Sending(t) == op[t].name = "send_standard_or_extended_message"

\* C12: send_standard_or_extended_message writes one 0x62 frame whose body
\* is the serialized message, with the 14 bytes of user data exactly when
\* the extended flag is set; it returns only with the echo ending in ACK,
\* reports an echo ending in NAK as a CommandFailure, and once the modem has
\* answered the command it completes.
C12_SendCompletes ==
    /\ [][\A t \in CommandTasks :
            (pc[t] = "idle" /\ Sending(t)' /\ pc'[t] = "wr_get") =>
                \E m \in {StandardOutgoing, ExtendedOutgoing} :
                    /\ serialOut' = Append(serialOut,
                            [by |-> t,
                             bytes |-> <<2, 98>> \o to_message_body(m)])
                    /\ Len(to_message_body(m)) =
                            IF 4 \in m.flags THEN 20 ELSE 6]_vars
    /\ [](\A t \in CommandTasks : Sending(t) =>
            /\ pc[t] = "done" =>
                /\ LastTaken(t).command_code = 98
                /\ LastTaken(t).body[Len(LastTaken(t).body)] = ACK
                /\ ret[t] = LastTaken(t)
            /\ (pc[t] = "failed" /\ exc[t] = "CommandFailure") =>
                LastTaken(t).body[Len(LastTaken(t).body)] = NAK)
    /\ \A t \in CommandTasks :
            (Sending(t) /\ pc[t] = "wr_get" /\ serialOut = <<>>)
                ~> (pc[t] \in Exited)

\* C16: get_info returns only on a 0x60 frame whose last byte is ACK, with
\* the identity from body bytes 0..2, the category and the subcategory from
\* bytes 3..4 and the firmware version from byte 5 of what the modem
\* answered; on the answer 02 60 1A 2B 3C 03 2A 07 06 that is identity
\* 1A.2B.3C, category network_bridges (0x03), a subcategory of value 0x2A
\* and firmware version 0x07. A NAK is a CommandFailure.
C16_GetInfo ==
    \A t \in CommandTasks : op[t].name = "get_info" =>
        /\ pc[t] = "done" =>
            /\ LastTaken(t).command_code = 96
            /\ LastTaken(t).body = Append(modem.info, ACK)
            /\ ret[t].identity = SubSeq(modem.info, 1, 3)
            /\ ret[t].category.value = modem.info[4]
            /\ ret[t].subcategory.value = modem.info[5]
            /\ ret[t].firmware_version = modem.info[6]
            /\ modem.info = <<26, 43, 60, 3, 42, 7>> =>
                ret[t] = [identity |-> <<26, 43, 60>>,
                          category |-> [class |-> "DeviceCategory",
                                        value |-> 3],
                          subcategory |-> [class |-> "GenericSubcategory",
                                           value |-> 42],
                          firmware_version |-> 7]
            /\ modem.info = <<1, 2, 3, 3, 17, 155>> =>
                ret[t].subcategory.class = "NetworkBridgesSubcategory"
            /\ modem.info = <<4, 5, 6, 48, 0, 1>> =>
                ret[t].category.class = "GenericDeviceCategory"
        /\ (pc[t] = "failed" /\ exc[t] # "SerialException") =>
            /\ exc[t] = "CommandFailure"
            /\ LastTaken(t).body = Append(modem.info, NAK)

\* get_info has returned the information of scenario S1.
C16_Witness ==
    /\ op["c1"].name = "get_info"
    /\ pc["c1"] = "done"
    /\ modem.info = <<26, 43, 60, 3, 42, 7>>
    /\ ret["c1"].firmware_version = 7
    /\ LastTaken("c1").body = <<26, 43, 60, 3, 42, 7, 6>>

\* The task is in an all_linking_session; the task has called id_request.
InSession(t) == op[t].name = "all_linking_session"
Identifying(t) == op[t].name = "id_request"

IdAnswered(t) ==
    /\ Identifying(t)
    /\ pc[t] = "wr_get"
    /\ serialOut = <<>>
    /\ serialIn = format_message(98, op[t].body) \o <<ACK>> \o IdReply

\* C20: id_request is subscribed to the inbound Insteon messages when it
\* sends the 0x10 0x00 request, and a matching reply that follows the
\* acknowledgment of the command is not missed: id_request returns.
C20_IdRequest ==
    /\ [][\A t \in CommandTasks :
            (pc[t] = "idle" /\ Identifying(t)' /\ pc'[t] = "wr_get") =>
                /\ ScopeOf(t) \in connected'
                /\ rq'[ScopeOf(t)] = "running"
                /\ serialOut' = Append(serialOut,
                        [by |-> t,
                         bytes |-> <<2, 98>> \o DeviceIdentity
                                        \o <<11, 16, 0>>])]_vars
    /\ \A t \in CommandTasks : IdAnswered(t) ~> (pc[t] \in Exited)

\* The step is on_message.emit of an all-linking completed message.
EmitsCompleted ==
    /\ loopq # <<>>
    /\ IsEmitCall(Head(loopq))
    /\ Head(loopq).command_code = 83
    /\ dispatched' = Append(dispatched, Head(loopq))

\* C17: the next 0x53 frame dispatched after its registration resolves a
\* future of wait_all_linking_completed, with group = body[1], identity =
\* body[2..4], category and subcategory from body[5..6], firmware =
\* body[7], and the mode the AllLinkMode member of body[0] for 0x00, 0x01,
\* 0x03, 0xFE and 0xFF, and None for every other byte.
C17_ResolvedByNext ==
    [][\A f \in Futures :
        (EmitsCompleted /\ future[f].state = "pending") =>
            LET body == Head(loopq).body
            IN  /\ future'[f].state = "done"
                /\ future'[f].result[1].group = body[2]
                /\ future'[f].result[1].identity = SubSeq(body, 3, 5)
                /\ future'[f].result[1].category.value = body[6]
                /\ future'[f].result[1].subcategory.value = body[7]
                /\ future'[f].result[1].firmware_version = body[8]
                /\ future'[f].result[1].mode =
                        IF body[1] \in {0, 1, 3, 254, 255}
                        THEN [class |-> "AllLinkMode", value |-> body[1]]
                        ELSE NoMode]_vars

\* C18: a 0x53 frame dispatched after a future of wait_all_linking_completed
\* was cancelled (and while no other waiter's future is fulfilled already)
\* raises no error in the dispatcher, resolves the remaining waiters and is
\* delivered to the subscribers of on_message.
C18_CancelledWaiter ==
    [][(/\ EmitsCompleted
        /\ \E f \in Futures : future[f].state = "cancelled"
        /\ \A f \in Futures : future[f].state # "done") =>
            /\ loop_error' = loop_error
            /\ \A f \in Futures :
                    future[f].state = "pending" => future'[f].state = "done"
            /\ \A t \in connected :
                    queue'[t] = ReadOne(queue[t], CommandCodes(t),
                                        Head(loopq))]_vars

\* ------------------------------------- claims on the functions called alone

\* C21: light_on(01.02.03, 50.0, false) emits 02 62 01 02 03 0F 11 7F.
C21_LightOnWire ==
    (result.call = "light_on" /\ result.input = <<<<1, 2, 3>>, 50, FALSE>>)
        => result.output.wire = <<2, 98, 1, 2, 3, 15, 17, 127>>

\* C22: remote_enter_linking and remote_enter_unlinking send an extended
\* message with command bytes [0x09, group] and [0x0A, group] and a user_data
\* of 13 zero bytes followed by the checksum byte.
C22_RemoteLinking ==
    result.call \in {"remote_enter_linking", "remote_enter_unlinking"} =>
        LET group == result.input[2]
            command == IF result.call = "remote_enter_linking" THEN 9
                       ELSE 10
        IN  /\ 4 \in result.output.flags
            /\ result.output.command_bytes = <<command, group>>
            /\ result.output.user_data =
                    [i \in 1 .. 14 |->
                        IF i < 14 THEN 0
                        ELSE (256 - ((command + group) % 256)) % 256]

\* C23: the command bytes and the user data of every extended message a
\* facade operation sends sum to 0 modulo 256.
C23_ExtendedChecksum ==
    (/\ result.call \in {"remote_enter_linking", "get_device_info",
                         "set_device_info"}
     /\ result.call = "set_device_info" => result.output.error = "none")
        => (Sum(result.output.command_bytes)
                + Sum(result.output.user_data)) % 256 = 0

\* C24: a decoded inbound Insteon message has the extended flag if and only
\* if its user_data has exactly 14 bytes.
C24_ExtendedInvariant ==
    result.call = "from_message" =>
        (4 \in result.output.flags <=> Len(result.output.user_data) = 14)

\* C25: the frame 02 51 aa bb cc dd ee ff 2F 2E 01 followed by 14 payload
\* bytes decodes to a message whose flags are exactly {ack, extended}.
C25_AckExtended ==
    (/\ result.call = "from_message"
     /\ result.input.command_code = 81
     /\ SubSeq(result.input.body, 1, 9)
            = <<170, 187, 204, 221, 238, 255, 47, 46, 1>>)
        => result.output.flags = {4, 5}

\* C26: a triple (hops_left, max_hops, flags) encoded into a flags byte and
\* decoded again is the same triple, and no other triple has the same byte.
C26_FlagsRoundTrip ==
    result.call = "write_flags" =>
        /\ result.output.read = result.input
        /\ \A hops_left \in 0 .. 3, max_hops \in 0 .. 3,
              flags \in SUBSET {4, 5, 6, 7} :
                write_flags(hops_left, max_hops, flags)
                        = result.output.flags_byte
                    => [hops_left |-> hops_left, max_hops |-> max_hops,
                        flags |-> flags] = result.input

\* The triple (1, 2, {ack, broadcast}) was written as 0xA6 and read back.
C26_Witness ==
    /\ result.call = "write_flags"
    /\ result.input = [hops_left |-> 1, max_hops |-> 2, flags |-> {5, 7}]
    /\ result.output.flags_byte = 166
    /\ result.output.read.hops_left = 1

\* C27: on_level_from_percent(on_level_to_percent(b)) = b for every byte b.
C27_OnLevelRoundTrip ==
    result.call = "on_level" => result.output = result.input

\* C28: ramp_rate_from_seconds(ramp_rate_to_seconds(b)) = b for every rate
\* byte of the table, and ramp_rate_to_seconds(ramp_rate_from_seconds(s)) = s
\* for every seconds value of the table.
C28_RampRoundTrip ==
    result.call \in {"ramp_rate", "ramp_seconds"} =>
        result.output = result.input

\* The rate byte 0x1C (0.5 s) was converted to seconds and back.
C28_Witness ==
    /\ result.call = "ramp_rate"
    /\ result.input = 28
    /\ ramp_rate_to_seconds(28) = 5
    /\ result.output = 28

\* C29: for every pair of bytes (c, s) parse_device_categories returns a
\* category of value c and a subcategory of value s: the enumeration member
\* when the byte is known (the subcategory in the value-space of the
\* category), a generic variant otherwise, and a generic subcategory for an
\* unknown category.
C29_Categories ==
    result.call = "parse_device_categories" =>
        LET c == result.input[1]
            s == result.input[2]
            category == result.output.category
            subcategory == result.output.subcategory
        IN  /\ category.value = c
            /\ subcategory.value = s
            /\ category.class =
                    IF c \in 0 .. 22 \/ c = 255 THEN "DeviceCategory"
                    ELSE "GenericDeviceCategory"
            /\ category.class = "GenericDeviceCategory" =>
                    subcategory.class = "GenericSubcategory"
            /\ subcategory.class # "GenericSubcategory" <=>
                    /\ c \in DOMAIN subcategory_class
                    /\ s \in subcategory_class[c].values
                    /\ subcategory.class = subcategory_class[c].name
            /\ (c = 1 /\ s = 1) =>
                    subcategory.class = "DimmableLightingControlSubcategory"
            /\ (c = 1 /\ s = 254) =>
                    subcategory.class = "GenericSubcategory"
            /\ (c = 3 /\ s = 0) => subcategory.class = "GenericSubcategory"

\* parse_device_categories(b'\x01\x01') has returned a dimmable lighting
\* control and its subcategory 0x01.
C29_Witness ==
    /\ result.call = "parse_device_categories"
    /\ result.input = <<1, 1>>
    /\ result.output.category = [class |-> "DeviceCategory", value |-> 1]
    /\ result.output.subcategory.class
            = "DimmableLightingControlSubcategory"

\* ------------------------------------------------------- claims on close()

\* C30: once close() is called the reader thread starts no further read and
\* leaves its loop when the read in progress returns; the serial handle is
\* closed only after the thread has ended, so no read is issued on a closed
\* handle; and close() terminates.
C30_Close ==
    /\ [](serial = "closed" => reader \in {"stopped", "crashed"})
    /\ [][(must_stop /\ reader = "running") => reader' # "reading"]_vars
    /\ [][(must_stop /\ reader = "reading") =>
            reader' \in {"reading", "running", "crashed"}]_vars
    /\ [][(closer' = "joined" /\ closer = "join") =>
            reader \in {"stopped", "crashed"}]_vars
    /\ (closer = "join") ~> (closer = "done" /\ serial = "closed")

\* close() has returned, after the thread had dispatched a message and left
\* its loop.
C30_Witness ==
    /\ closer = "done"
    /\ serial = "closed"
    /\ reader = "stopped"
    /\ dispatched # <<>>

\* --------------------------------------- claims on what the parser leaves

\* A complete frame sits in bytes: a start byte, a command code with a known
\* body size, and at least that many bytes behind it.
HoldsCompleteFrame(bytes) ==
    \E i \in 1 .. Len(bytes) :
        /\ bytes[i] = MESSAGE_START_BYTE
        /\ i + 1 <= Len(bytes)
        /\ bytes[i + 1] \in DOMAIN BODY_SIZES
        /\ i + 1 + BODY_SIZES[bytes[i + 1]] <= Len(bytes)

\* C37: after parse_messages returns, the buffer holds no complete frame:
\* every complete frame in the buffer is returned by the call, frames that
\* follow a discarded unknown command code included.
C37_NoFrameLeft ==
    (result.call = "parse_messages" /\ result.error = "none")
        => ~HoldsCompleteFrame(buffer)

\* ------------------------------------------------- claims on project_onto

\* The entries of RAMP_RATES as (key, value) pairs of the direction asked for.
TableEntries(invert) ==
    {IF invert THEN <<e[2], e[1]>> ELSE e : e \in Range(RAMP_RATES)}

\* The entry of the least key of a non-empty set of entries, and of the
\* greatest.
LeastEntry(entries) == CHOOSE e \in entries : \A f \in entries : e[1] <= f[1]
GreatestEntry(entries) ==
    CHOOSE e \in entries : \A f \in entries : f[1] <= e[1]

\* C33, as stated: project_onto returns the value paired with the first key
\* strictly greater than the input, and the value of the last entry when no
\* key exceeds the input.
C33_FirstGreater ==
    result.call = "project_onto" =>
        LET entries == TableEntries(result.input.invert)
            greater == {e \in entries : e[1] > result.input.value}
        IN  result.output = IF greater = {} THEN GreatestEntry(entries)[2]
                            ELSE LeastEntry(greater)[2]

\* C33, amended: project_onto returns the value paired with the greatest key
\* that is not greater than the input (the entry before the first key
\* strictly greater than it), the value of the first entry when the input is
\* below every key, and the value of the last entry when no key exceeds it.
C33_GreatestNotGreater ==
    result.call = "project_onto" =>
        LET entries == TableEntries(result.input.invert)
            reached == {e \in entries : e[1] <= result.input.value}
        IN  result.output = IF reached = {} THEN LeastEntry(entries)[2]
                            ELSE GreatestEntry(reached)[2]

\* project_onto(0.4 s, RAMP_RATES) was called: 0.4 lies between the keys 0.3
\* and 0.5, and the rate byte of 0.3 s, 0x1D, was returned.
C33_Witness ==
    /\ result.call = "project_onto"
    /\ result.input = [value |-> 4, invert |-> FALSE]
    /\ result.output = 29

\* ------------------------------------------ claims on decoding a message

\* C34: for every 9-byte 0x50 body, decoding yields sender = bytes 0..2,
\* target = bytes 3..5, max_hops = flags byte & 0x03, hops_left = (flags byte
\* >> 2) & 0x03, command bytes = bytes 7..8 and empty user_data; and
\* 02 50 11 22 33 44 55 66 02 13 00 decodes to sender 11.22.33, target
\* 44.55.66, max_hops 2, hops_left 0, no flags, command [13, 00].
C34_StandardDecoding ==
    (result.call = "from_message" /\ result.input.command_code = 80) =>
        LET b == result.input.body
        IN  /\ Len(b) = 9
            /\ result.output.sender = <<b[1], b[2], b[3]>>
            /\ result.output.target = <<b[4], b[5], b[6]>>
            /\ result.output.max_hops = b[7] % 4
            /\ result.output.hops_left = (b[7] \div 4) % 4
            /\ result.output.command_bytes = <<b[8], b[9]>>
            /\ result.output.user_data = <<>>
            /\ b = <<17, 34, 51, 68, 85, 102, 2, 19, 0>> =>
                    result.output =
                        [sender |-> <<17, 34, 51>>,
                         target |-> <<68, 85, 102>>,
                         hops_left |-> 0, max_hops |-> 2, flags |-> {},
                         command_bytes |-> <<19, 0>>, user_data |-> <<>>]

\* The body 11 22 33 44 55 66 02 13 00 was decoded, with max_hops 2.
C34_Witness ==
    /\ result.call = "from_message"
    /\ result.input = IncomingMessage(80, <<17, 34, 51, 68, 85, 102, 2, 19, 0>>)
    /\ result.output.max_hops = 2
    /\ result.output.hops_left = 0

\* ----------------------------- claims on futures completed more than once

\* C35: a future of wait_all_linking_completed is completed at most once:
\* when a 0x53 frame is dispatched while a future resolved by an earlier
\* frame still has its handler connected (its done callback has not run
\* yet), and no future is cancelled, the dispatch raises no error and leaves
\* the completed future as it is.
C35_CompletedOnce ==
    [][(/\ EmitsCompleted
        /\ ~loop_error
        /\ \A f \in Futures : future[f].state # "cancelled"
        /\ \E f \in Range(on_all_linking_completed) :
                future[f].state = "done") =>
            /\ ~loop_error'
            /\ \A f \in Futures :
                    future[f].state = "done" => future'[f] = future[f]]_vars

\* ------------------------------------- claims on a failure inside write_read

\* C32: when an exception other than cancellation is raised inside
\* write_read's send-and-await sequence, the transport is flushed and the
\* same exception propagates to the caller: the step in which the write
\* raises leaves no unread byte in the port, ends the read() scope, releases
\* the lock and ends the task with that exception.
C32_FlushAndPropagate ==
    [][\A t \in CommandTasks :
        (/\ op'[t].name = "write_read"
         /\ exc[t] = "none"
         /\ exc'[t] = "SerialException") =>
            /\ serialIn' = <<>>
            /\ pc'[t] = "failed"
            /\ t \notin connected'
            /\ lockOwner' # t]_vars

\* The write of c1's write_read has raised while a frame the modem had sent
\* on its own was waiting in the port: the frame was never read.
C32_Witness ==
    /\ op["c1"].name = "write_read"
    /\ pc["c1"] = "failed"
    /\ exc["c1"] = "SerialException"
    /\ op["c2"] = NoOp
    /\ events >= 2
    /\ serialIn = <<>>
    /\ buffer = <<>>
    /\ loopq = <<>>
    /\ dispatched = <<>>

\* ------------------------------------------- claims on monitor/interrupt

\* C31: monitor() completes after interrupt() is called while it is waiting;
\* calling interrupt() again while the event is set changes nothing; and
\* when monitor() has exited, by interrupt or by cancellation, its message
\* handler is no longer registered.
C31_Monitor ==
    /\ (monitor.pc = "waiting" /\ monitor_interrupt)
            ~> (monitor.pc \in {"done", "cancelled"})
    /\ [][(monitor_interrupt /\ Interrupt) => UNCHANGED vars]_vars
    /\ [](monitor.pc \in {"done", "cancelled"} => ~monitor.connected)

\* monitor() has returned after an interrupt, with messages dispatched, and
\* its handler is disconnected.
C31_Witness ==
    /\ monitor = [pc |-> "done", connected |-> FALSE]
    /\ monitor_interrupt
    /\ dispatched # <<>>

\* C36: an interrupt() issued before monitor() has started waiting is not
\* lost: when monitor() is called with the event set, the event is still set
\* once the call waits, so that the call returns without a second
\* interrupt.
C36_InterruptKept ==
    [][(/\ monitor_interrupt
        /\ monitor.pc # "waiting"
        /\ monitor'.pc = "waiting") => monitor_interrupt']_vars

\* ----------------------------------------- claims on Controller.communicate

\* a is a prefix of b.
IsPrefix(a, b) == Len(a) <= Len(b) /\ a = SubSeq(b, 1, Len(a))

\* C40: two concurrent calls of communicate do not interleave on the serial
\* line: the bytes a call writes and reads are contiguous in the trace of
\* the line, and the bytes a call has read are the beginning of the modem's
\* answer to its own command.
C40_NotInterleaved ==
    /\ \A i, j, k \in DOMAIN controller.trace :
            (i < j /\ j < k
                /\ controller.trace[i].by = controller.trace[k].by)
            => controller.trace[j].by = controller.trace[i].by
    /\ \A t \in ControllerTasks :
            \E ack \in {ACK, NAK} :
                IsPrefix(controller.call[t].read,
                         ControllerReply(controller.call[t].command, ack))

\* ------------------------------------------- claims on get_device_info

\* What get_device_info returns for the device's answer of DeviceInfoReply.
DeviceInfoResult ==
    [x10_house_code |-> 32, x10_unit_code |-> 1,
     ramp_rate |-> ramp_rate_to_seconds(28),
     on_level |-> on_level_to_percent(255),
     led_level |-> led_brightness_to_percent(127)]

\* The modem has reported a message of another device to t's
\* get_device_info, has acknowledged the command, and the device's
\* acknowledgment and answer follow on the wire.
DeviceInfoAnswered(t) ==
    /\ op[t].name = "get_device_info"
    /\ pc[t] = "wr_get"
    /\ serialOut = <<>>
    /\ \/ \E i \in DOMAIN queue[ScopeOf(t)] :
            SubSeq(queue[ScopeOf(t)][i].body, 1, 3) # DeviceIdentity
       \/ \E i \in DOMAIN insteon_queue[ScopeOf(t)] :
            insteon_queue[ScopeOf(t)][i].sender # DeviceIdentity
    /\ serialIn = format_message(98, op[t].body) \o <<ACK>>
                    \o DeviceInfoReply

\* C38: the result of get_device_info(identity) is decoded from messages
\* sent by the requested device: a message of another device dispatched
\* between the request and the device's acknowledgment or answer neither
\* makes the operation fail nor is used as the acknowledgment or as the
\* payload, so the operation returns the fields of the device's answer.
C38_DeviceInfo ==
    /\ [][\A t \in CommandTasks :
            (op[t].name = "get_device_info" /\ pc[t] # "done"
                /\ pc'[t] = "done") => ret'[t] = DeviceInfoResult]_vars
    /\ DeviceInfoAnswered("c1")
            ~> (pc["c1"] = "done" /\ ret["c1"] = DeviceInfoResult)

\* --------------------------------------------- claims on the constructor

\* C39: a spontaneous 0x53 frame dispatched while the constructor is still
\* running its get_info() is handled without error, and construction
\* completes with the identity fields populated from the modem's answer.
C39_ConstructorDispatch ==
    /\ [][(EmitsCompleted /\ on_all_linking_completed = Unassigned) =>
            loop_error' = loop_error]_vars
    /\ [][(on_all_linking_completed = Unassigned
            /\ on_all_linking_completed' # Unassigned) =>
                /\ ret["c1"].identity = SubSeq(modem.info, 1, 3)
                /\ ret["c1"].category.value = modem.info[4]
                /\ ret["c1"].subcategory.value = modem.info[5]
                /\ ret["c1"].firmware_version = modem.info[6]]_vars

=============================================================================
